---- MODULE Spec2Model ----
(***************************************************************************)
(* The Apply Engine of mem-os (src/scripts/apply_engine.py) as a state     *)
(* machine: the workspace files, the proposed files, intel-state, the      *)
(* snapshot directories with their receipts, and one apply_proposal run.   *)
(*                                                                         *)
(* A text file is the sequence of its lines (every line newline            *)
(* terminated); a line is a record [k, a, b]:                              *)
(*   hdr   "[a]"            a block header                                 *)
(*   fld   "a: b"           a field line ("a:" when b is empty)            *)
(*   item  "- a"            a list item                                    *)
(*   sig   "  a: b"         an indented line of a signature record         *)
(*   blank ""                                                              *)
(*   txt   "a"              any other line                                 *)
(* A path is the sequence of its segments; "/" as first segment makes it   *)
(* absolute.                                                               *)
(***************************************************************************)
EXTENDS Integers, Sequences, FiniteSets, TLC

\* ------------------------------------------------------------------ lines

L(k, a, b) == [k |-> k, a |-> a, b |-> b]
Hdr(id) == L("hdr", id, "")
Fld(n, v) == L("fld", n, v)
Item(t) == L("item", t, "")
Sig(n, v) == L("sig", n, v)
Blank == L("blank", "", "")
Txt(t) == L("txt", t, "")

\* The content of a path that is no file.
Absent == << L("absent", "", "") >>

\* ------------------------------------------------------------------ paths

SNAPSHOT_DIRS ==
  <<"decisions", "tasks", "entities", "summaries", "intelligence", "memory", "maintenance">>
SNAPSHOT_FILES == {"AGENTS.md", "MEMORY.md", "IDENTITY.md"}

\* The locations of the model: normalised paths relative to the workspace
\* root. OUT and ETC lie outside the root.
DEC == <<"decisions", "DECISIONS.md">>
ROGUE == <<"decisions", "ROGUE.md">>
MEM == <<"MEMORY.md">>
README == <<"README.md">>
OUT == <<"..", "outside.md">>
ETC == <<"/", "etc", "passwd">>
Locs == {DEC, ROGUE, MEM, README, OUT, ETC}

\* The one symbolic link of the modelled workspace: <root>/escape_link -> /etc
SymlinkName == "escape_link"
SymlinkTarget == <<"/", "etc">>

\* The file os.path.join(ws, file) names once the system resolves it
\* (execute_op opens the joined path as it is): ".." goes up, an absolute
\* file replaces the root, a symbolic link is followed.
RECURSIVE NormFrom(_, _)
NormFrom(stack, segs) ==
  IF segs = <<>> THEN stack
  ELSE LET s == Head(segs)
           rest == Tail(segs)
       IN IF s = "/" THEN NormFrom(<<"/">>, rest)
          ELSE IF s = ".."
            THEN IF stack = <<>> \/ stack[Len(stack)] = ".."
                   THEN NormFrom(Append(stack, ".."), rest)
                 ELSE IF stack = <<"/">> THEN NormFrom(stack, rest)
                 ELSE NormFrom(SubSeq(stack, 1, Len(stack) - 1), rest)
          ELSE IF stack = <<>> /\ s = SymlinkName
            THEN NormFrom(SymlinkTarget, rest)
          ELSE NormFrom(Append(stack, s), rest)

JoinWs(file) == NormFrom(<<>>, file)

InsideRoot(loc) == loc # <<>> /\ loc[1] \notin {"..", "/"}

InSnapshotDirs(name) == \E i \in 1..Len(SNAPSHOT_DIRS) : SNAPSHOT_DIRS[i] = name

\* A location create_snapshot copies: under one of SNAPSHOT_DIRS, or one of
\* SNAPSHOT_FILES at the top level.
Watched(loc) ==
  /\ InsideRoot(loc)
  /\ \/ Len(loc) >= 2 /\ InSnapshotDirs(loc[1])
     \/ Len(loc) = 1 /\ loc[1] \in SNAPSHOT_FILES

\* The directories create_snapshot has copied when copytree raises on
\* `intelligence`: those before it in SNAPSHOT_DIRS.
RECURSIVE IndexOf(_, _, _)
IndexOf(seq, x, i) ==
  IF i > Len(seq) THEN 0 ELSE IF seq[i] = x THEN i ELSE IndexOf(seq, x, i + 1)

CopiedBeforeRaise(loc) ==
  /\ InsideRoot(loc) /\ Len(loc) >= 2
  /\ IndexOf(SNAPSHOT_DIRS, loc[1], 1) > 0
  /\ IndexOf(SNAPSHOT_DIRS, loc[1], 1) < IndexOf(SNAPSHOT_DIRS, "intelligence", 1)

\* --------------------------------------------------------------------- ops

VALID_OPS == {"append_block", "insert_after_block", "update_field",
              "append_list_item", "replace_range", "set_status",
              "supersede_decision"}
VALID_RISKS == {"low", "medium", "high"}
VALID_TYPES == {"decision", "task", "edit"}

\* An op record; a key the op does not carry is "" (a patch: <<>>).
NoOp == [op |-> "", file |-> <<>>, target |-> "", patch |-> <<>>, field |-> "",
         value |-> "", list |-> "", item |-> "", status |-> "", history |-> "",
         rstart |-> "", rend |-> "", new_block |-> <<>>]

\* What an executor returns: (success, message) and the file as it left it.
Res(ok, lines, msg) == [ok |-> ok, lines |-> lines, msg |-> msg]

\* ^\[<target>\] matches the line
IsTargetHdr(line, target) == line.k = "hdr" /\ line.a = target
\* ^\[[A-Z]+-[^\]]+\]\s*$ matches the line (every ID of the model has the
\* upper-case prefix and the dash)
IsAnyHdr(line) == line.k = "hdr"

\* patch.split("\n"), each with its newline; the empty patch is one blank line
PatchLines(patch) == IF patch = <<>> THEN <<Blank>> ELSE patch

InsertAt(lines, pos, new) ==
  SubSeq(lines, 1, pos) \o new \o SubSeq(lines, pos + 1, Len(lines))

_op_append_block(lines, op) ==
  IF op.patch = <<>> THEN Res(FALSE, lines, "append_block: empty patch")
  ELSE Res(TRUE, lines \o <<Blank>> \o op.patch, "append_block: OK")

\* The loop of _op_insert_after_block: the number of lines before the
\* insertion point, or -1 when the target was not found.
RECURSIVE IAB_Scan(_, _, _, _)
IAB_Scan(lines, i, found, target) ==
  IF i > Len(lines) THEN (IF found THEN Len(lines) ELSE -1)
  ELSE IF IsTargetHdr(lines[i], target) THEN IAB_Scan(lines, i + 1, TRUE, target)
  ELSE IF found /\ IsAnyHdr(lines[i]) THEN i - 1
  ELSE IAB_Scan(lines, i + 1, found, target)

_op_insert_after_block(lines, op) ==
  IF op.target = "" \/ op.patch = <<>>
    THEN Res(FALSE, lines, "insert_after_block: missing target or patch")
  ELSE LET at == IAB_Scan(lines, 1, FALSE, op.target)
       IN IF at = -1 THEN Res(FALSE, lines, "insert_after_block: target not found")
          ELSE Res(TRUE, InsertAt(lines, at, <<Blank>> \o PatchLines(op.patch)),
                   "insert_after_block: inserted")

\* ^<field>:\s+.*$ matches the line (the line's newline satisfies \s+ when
\* the value is empty)
FieldMatch(line, field) == line.k = "fld" /\ line.a = field

\* The loop of _op_update_field: the index of the line to rewrite, or 0.
RECURSIVE UF_Scan(_, _, _, _, _)
UF_Scan(lines, i, in_target, target, field) ==
  IF i > Len(lines) THEN 0
  ELSE IF IsTargetHdr(lines[i], target) THEN UF_Scan(lines, i + 1, TRUE, target, field)
  ELSE IF in_target /\ IsAnyHdr(lines[i]) THEN 0
  ELSE IF in_target /\ FieldMatch(lines[i], field) THEN i
  ELSE UF_Scan(lines, i + 1, in_target, target, field)

_op_update_field(lines, op) ==
  IF op.target = "" \/ op.field = ""
    THEN Res(FALSE, lines, "update_field: missing target or field")
  ELSE LET i == UF_Scan(lines, 1, FALSE, op.target, op.field)
       IN IF i = 0 THEN Res(FALSE, lines, "update_field: field not found")
          ELSE Res(TRUE, [lines EXCEPT ![i] = Fld(op.field, op.value)],
                   "update_field: OK")

\* item.strip().strip('"').strip("'")
CleanItem(item) ==
  CASE item = "\"quoted\"" -> "quoted"
    [] item = " padded " -> "padded"
    [] OTHER -> item

\* The loop of _op_append_list_item: the number of lines before the new
\* item, or -1 when the list was not found in the target's block.
RECURSIVE ALI_Scan(_, _, _, _, _, _, _)
ALI_Scan(lines, i, in_target, in_list, at, target, list) ==
  IF i > Len(lines) THEN at
  ELSE IF IsTargetHdr(lines[i], target)
    THEN ALI_Scan(lines, i + 1, TRUE, in_list, at, target, list)
  ELSE IF in_target /\ IsAnyHdr(lines[i]) THEN at
  ELSE IF ~in_target THEN ALI_Scan(lines, i + 1, in_target, in_list, at, target, list)
  ELSE IF lines[i].k = "fld" /\ lines[i].a = list
    THEN ALI_Scan(lines, i + 1, in_target, TRUE, i, target, list)
  ELSE IF ~in_list THEN ALI_Scan(lines, i + 1, in_target, in_list, at, target, list)
  ELSE IF lines[i].k = "item"
    THEN ALI_Scan(lines, i + 1, in_target, in_list, i, target, list)
  ELSE i - 1

_op_append_list_item(lines, op) ==
  IF op.target = "" \/ op.list = ""
    THEN Res(FALSE, lines, "append_list_item: missing target or list")
  ELSE LET at == ALI_Scan(lines, 1, FALSE, FALSE, -1, op.target, op.list)
       IN IF at = -1 THEN Res(FALSE, lines, "append_list_item: list not found")
          ELSE Res(TRUE, InsertAt(lines, at, <<Item(CleanItem(op.item))>>),
                   "append_list_item: added")

_op_set_status(lines, op) ==
  IF op.target = "" \/ op.status = ""
    THEN Res(FALSE, lines, "set_status: missing target or status")
  ELSE LET r1 == _op_update_field(lines,
                   [NoOp EXCEPT !.target = op.target, !.field = "Status",
                                !.value = op.status])
       IN IF ~r1.ok THEN Res(FALSE, r1.lines, "set_status: field update failed")
          ELSE IF op.history = "" THEN Res(TRUE, r1.lines, "set_status: OK")
          ELSE LET r2 == _op_append_list_item(r1.lines,
                           [NoOp EXCEPT !.target = op.target, !.list = "History",
                                        !.item = op.history])
               IN IF ~r2.ok
                    THEN Res(FALSE, r2.lines, "set_status: history append failed")
                  ELSE Res(TRUE, r2.lines, "set_status: OK")

\* `marker in line`: the marker is one of the line's tokens
Contains(line, marker) == marker = line.a \/ marker = line.b

\* The loop of _op_replace_range: <<start_line, end_line>> as 1-based line
\* numbers, 0 for None.
RECURSIVE RR_Scan(_, _, _, _, _, _, _)
RR_Scan(lines, i, in_target, start, target, sm, em) ==
  IF i > Len(lines) THEN <<start, 0>>
  ELSE IF IsTargetHdr(lines[i], target)
    THEN RR_Scan(lines, i + 1, TRUE, start, target, sm, em)
  ELSE IF in_target /\ IsAnyHdr(lines[i]) THEN <<start, 0>>
  ELSE IF ~in_target THEN RR_Scan(lines, i + 1, in_target, start, target, sm, em)
  ELSE LET s2 == IF Contains(lines[i], sm) /\ start = 0 THEN i ELSE start
       IN IF Contains(lines[i], em) /\ s2 # 0 THEN <<s2, i>>
          ELSE RR_Scan(lines, i + 1, in_target, s2, target, sm, em)

_op_replace_range(lines, op) ==
  IF op.target = "" \/ op.rstart = "" \/ op.rend = ""
    THEN Res(FALSE, lines, "replace_range: missing target, range.start, or range.end")
  ELSE LET se == RR_Scan(lines, 1, FALSE, 0, op.target, op.rstart, op.rend)
       IN IF se[1] = 0 \/ se[2] = 0
            THEN Res(FALSE, lines, "replace_range: markers not found")
          ELSE Res(TRUE,
                   SubSeq(lines, 1, se[1] - 1) \o PatchLines(op.patch)
                     \o SubSeq(lines, se[2], Len(lines)),
                   "replace_range: replaced")

\* block_parser.get_by_id(parse_file(path), target): the lines of the first
\* block whose header is [target], header excluded; Absent when there is none.
RECURSIVE BlockEnd(_, _)
BlockEnd(lines, i) ==
  IF i > Len(lines) \/ IsAnyHdr(lines[i]) THEN i - 1 ELSE BlockEnd(lines, i + 1)

get_by_id(lines, target) ==
  LET h == IndexOf([i \in 1..Len(lines) |->
                      IF IsTargetHdr(lines[i], target) THEN "h" ELSE "-"], "h", 1)
  IN IF h = 0 THEN Absent ELSE SubSeq(lines, h + 1, BlockEnd(lines, h + 1))

\* any(s.get("enforcement") == "invariant" for s in ConstraintSignatures)
HasInvariant(block) ==
  \E i \in 1..Len(block) :
    block[i].k = "sig" /\ block[i].a = "enforcement" /\ block[i].b = "invariant"

\* A supersede that marks the old decision and appends nothing.
supersede_mark_only(lines, op) ==
  LET r1 == _op_update_field(lines,
              [NoOp EXCEPT !.target = op.target, !.field = "Status",
                           !.value = "superseded"])
  IN Res(r1.ok, r1.lines, "supersede_decision: marked")

\* A supersede without the invariant check.
supersede_unguarded(lines, op) ==
  LET new_block == IF op.new_block # <<>> THEN op.new_block ELSE op.patch
      r1 == _op_update_field(lines,
              [NoOp EXCEPT !.target = op.target, !.field = "Status",
                           !.value = "superseded"])
  IN IF ~r1.ok THEN Res(FALSE, r1.lines, "supersede_decision step 1")
     ELSE _op_append_block(r1.lines, [NoOp EXCEPT !.patch = new_block])

_op_supersede_decision(lines, op) ==
  LET new_block == IF op.new_block # <<>> THEN op.new_block ELSE op.patch
      old == get_by_id(lines, op.target)
  IN IF op.target = "" \/ new_block = <<>>
       THEN Res(FALSE, lines, "supersede_decision: missing target or new_block/patch")
     ELSE IF old = Absent
       THEN Res(FALSE, lines, "supersede_decision: target not found")
     ELSE IF HasInvariant(old)
       THEN Res(FALSE, lines, "supersede_decision: invariant enforcement")
     ELSE LET r1 == _op_update_field(lines,
                      [NoOp EXCEPT !.target = op.target, !.field = "Status",
                                   !.value = "superseded"])
          IN IF ~r1.ok THEN Res(FALSE, r1.lines, "supersede_decision step 1")
             ELSE LET r2 == _op_append_block(r1.lines, [NoOp EXCEPT !.patch = new_block])
                  IN IF ~r2.ok THEN Res(FALSE, r2.lines, "supersede_decision step 2")
                     ELSE Res(TRUE, r2.lines, "supersede_decision: OK")

\* The dispatch of execute_op on a file that exists.
Dispatch(lines, op) ==
  CASE op.op = "append_block" -> _op_append_block(lines, op)
    [] op.op = "insert_after_block" -> _op_insert_after_block(lines, op)
    [] op.op = "update_field" -> _op_update_field(lines, op)
    [] op.op = "append_list_item" -> _op_append_list_item(lines, op)
    [] op.op = "set_status" -> _op_set_status(lines, op)
    [] op.op = "replace_range" -> _op_replace_range(lines, op)
    [] op.op = "supersede_decision" -> _op_supersede_decision(lines, op)
    [] OTHER -> Res(FALSE, lines, "Unknown op")

\* --------------------------------------------------------------- proposals

PROPOSED_FILES == <<"intelligence/proposed/DECISIONS_PROPOSED.md",
                    "intelligence/proposed/TASKS_PROPOSED.md",
                    "intelligence/proposed/EDITS_PROPOSED.md">>
PFiles == 1..Len(PROPOSED_FILES)

\* No stored Fingerprint field.
NoFp == <<>>

\* A proposal block as parse_file returns it: id is the header (_id), a field
\* the block does not carry is "" (Ops: <<>>, FilesTouched: {}, Fingerprint:
\* NoFp, Created: -1 for a missing or unparsable date). In the file the block's
\* ProposalId line precedes its Status line.
BaseP == [id |-> "P-1", ProposalId |-> "P-1", Type |-> "decision", Risk |-> "low",
          Status |-> "staged", Evidence |-> "evidence", Rollback |-> "revert",
          Ops |-> <<>>, TargetBlock |-> "D-1", FilesTouched |-> {},
          Fingerprint |-> NoFp, Created |-> -1]

NeedsTarget == {"update_field", "append_list_item", "set_status", "replace_range",
                "insert_after_block", "supersede_decision"}

OpsFiles(p) == {p.Ops[i].file : i \in 1..Len(p.Ops)}

\* validate_proposal: the set of the errors it returns.
validate_proposal(p) ==
  (IF p.ProposalId = "" THEN {"Missing required field: ProposalId"} ELSE {})
  \cup (IF p.Type = "" THEN {"Missing required field: Type"} ELSE {})
  \cup (IF p.Risk = "" THEN {"Missing required field: Risk"} ELSE {})
  \cup (IF p.Status = "" THEN {"Missing required field: Status"} ELSE {})
  \cup (IF p.Evidence = "" THEN {"Missing required field: Evidence"} ELSE {})
  \cup (IF p.Rollback = "" THEN {"Missing required field: Rollback"} ELSE {})
  \cup (IF p.Risk \notin VALID_RISKS THEN {"Invalid Risk"} ELSE {})
  \cup (IF p.Type \notin VALID_TYPES THEN {"Invalid Type"} ELSE {})
  \cup (IF p.Status # "staged" THEN {"Status must be 'staged' to apply"} ELSE {})
  \cup (IF p.Evidence = "" THEN {"Evidence is empty"} ELSE {})
  \cup (IF p.Ops = <<>> THEN {"No Ops defined"} ELSE {})
  \cup (IF \E i \in 1..Len(p.Ops) : p.Ops[i].op \notin VALID_OPS
          THEN {"Ops: invalid op type"} ELSE {})
  \cup (IF \E i \in 1..Len(p.Ops) : p.Ops[i].file = <<>>
          THEN {"Ops: missing 'file'"} ELSE {})
  \cup (IF \E i \in 1..Len(p.Ops) :
             p.Ops[i].op \in NeedsTarget /\ p.Ops[i].target = ""
          THEN {"Ops: op requires 'target'"} ELSE {})
  \cup (IF p.FilesTouched # {} /\ OpsFiles(p) # {}
             /\ ~(OpsFiles(p) \subseteq p.FilesTouched)
          THEN {"Ops reference files not in FilesTouched"} ELSE {})

\* compute_fingerprint: the canonical JSON that is hashed; SHA-256 cut to 16
\* hex digits is taken as injective on the proposals of the model.
compute_fingerprint(p) ==
  <<p.Type, p.TargetBlock,
    [i \in 1..Len(p.Ops) |-> <<p.Ops[i].op, p.Ops[i].file, p.Ops[i].target>>]>>

\* The blocks of the proposed files in the order the loops visit them.
AllBlocks(P) == P[1] \o P[2] \o P[3]

\* find_proposal: <<file, index>> of the first block that matches, <<0, 0>>
\* when none does.
BlockMatches(b, pid) == b.ProposalId = pid \/ b.id = pid

FirstMatch(blocks, pid) ==
  IndexOf([i \in 1..Len(blocks) |->
             IF BlockMatches(blocks[i], pid) THEN "y" ELSE "n"], "y", 1)

find_proposal(P, pid) ==
  LET hits == {f \in PFiles : FirstMatch(P[f], pid) > 0}
  IN IF hits = {} THEN <<0, 0>>
     ELSE LET f == CHOOSE g \in hits : \A h \in hits : g <= h
          IN <<f, FirstMatch(P[f], pid)>>

\* check_fingerprint_dedup: TRUE when it reports a duplicate.
check_fingerprint_dedup(P, p) ==
  LET fp == compute_fingerprint(p)
      blocks == AllBlocks(P)
  IN \E i \in 1..Len(blocks) :
       /\ blocks[i].Status \in {"staged", "deferred"}
       /\ blocks[i].Fingerprint = fp

DefaultBacklogLimit == 30
DefaultCooldownDays == 7
DAY == 24 * 3600
NoTouchSecs == 10 * 60

\* intel-state.json: present says whether the file exists, last_t the time of
\* last_apply_ts in seconds (-1: no such key), last_z whether the stamp ends
\* in "Z", backlog_limit 0 when proposal_budget.backlog_limit is not set.
NoIntel == [present |-> FALSE, last_t |-> -1, last_z |-> FALSE, backlog_limit |-> 0]
EmptyIntel == [NoIntel EXCEPT !.present = TRUE]

\* A backlog test that refuses only above the limit.
check_backlog_over(P, st) ==
  LET limit == IF st.present /\ st.backlog_limit # 0 THEN st.backlog_limit
               ELSE DefaultBacklogLimit
      blocks == AllBlocks(P)
      count == Cardinality({i \in 1..Len(blocks) : blocks[i].Status = "staged"})
  IN <<count, count > limit>>

\* check_backlog_limit: <<count, limit_exceeded>>
check_backlog_limit(P, st) ==
  LET limit == IF st.present /\ st.backlog_limit # 0 THEN st.backlog_limit
               ELSE DefaultBacklogLimit
      blocks == AllBlocks(P)
      count == Cardinality({i \in 1..Len(blocks) : blocks[i].Status = "staged"})
  IN <<count, count >= limit>>

\* check_no_touch_window: TRUE when the apply may go on. Subtracting the
\* naive copy of a stamp with "Z" from the aware now raises TypeError, which
\* the handler swallows.
check_no_touch_window(st, t) ==
  IF ~st.present \/ st.last_t = -1 THEN TRUE
  ELSE IF st.last_z THEN TRUE
  ELSE ~(t - st.last_t < NoTouchSecs)

\* check_deferred_cooldown: TRUE when there is no cooldown conflict.
check_deferred_cooldown(P, p, t) ==
  LET cutoff == t - DefaultCooldownDays * DAY
      blocks == AllBlocks(P)
  IN IF p.TargetBlock = "" THEN TRUE
     ELSE ~ \E i \in 1..Len(blocks) :
              /\ blocks[i].Status \in {"rejected", "deferred"}
              /\ blocks[i].TargetBlock = p.TargetBlock
              /\ blocks[i].Created # -1
              /\ blocks[i].Created > cutoff

\* A status update that writes nothing.
mark_nothing(blocks, pid, new_status) == blocks

\* _mark_proposal_status on the blocks of the source file: the Status line
\* after the first "ProposalId: <id>" line is rewritten; nothing is when no
\* line names the id or the block has no Status line.
_mark_proposal_status(blocks, pid, new_status) ==
  LET i == IndexOf([j \in 1..Len(blocks) |->
                      IF blocks[j].ProposalId = pid THEN "y" ELSE "n"], "y", 1)
  IN IF i = 0 \/ blocks[i].Status = "" THEN blocks
     ELSE [blocks EXCEPT ![i].Status = new_status]

\* ------------------------------------------------------------------ bounds

\* Steps of the environment in one behaviour: calls of the API
\* (apply_proposal, rollback, restore_snapshot, create_snapshot), writes to
\* the workspace by something else, advances of the clock.
MaxSteps == 3

\* ------------------------------------------------------------------- state

VARIABLES
  fs,        \* location -> lines of the file there, or Absent
  proposed,  \* proposed file (index in PROPOSED_FILES) -> its blocks
  intel,     \* memory/intel-state.json
  snaps,     \* timestamp -> the snapshot directory intelligence/applied/<ts>
  now,       \* the clock, in seconds
  pc,        \* where the apply_proposal run is: idle, snapshot, ops, post
  run,       \* the locals of the apply_proposal run
  last,      \* the last call that returned: what it was and what it returned
  n          \* the steps of the environment so far

vars == <<fs, proposed, intel, snaps, now, pc, run, last, n>>

\* The processes that take the lock of one path (filelock.py), and the
\* processes that write the workspace side by side.
NProcs == 2
LockProcs == 1..NProcs

VARIABLES
  lockfile,  \* the file <path>.lock: whether it is there, the PID written in
             \* it (0: nothing yet), who created it, when it was last written
  lpc,       \* process -> where it is in FileLock.acquire / release
  alive,     \* the processes that have not died
  rin,       \* recall.py: the arguments of the call
  rout,      \* recall.py: which function was called and what it returned
  wr,        \* concurrent writers: process -> where it is, what it has read
  signals_md \* capture.py: whether intelligence/SIGNALS.md is there, and its
             \* signal blocks

lockvars == <<lockfile, lpc, alive>>
recallvars == <<rin, rout>>

NoLockFile == [exists |-> FALSE, pid |-> 0, by |-> 0, mtime |-> 0]

LockIdle ==
  /\ lockfile = NoLockFile
  /\ lpc = [p \in LockProcs |-> "idle"]
  /\ alive = LockProcs

NoCall == [fn |-> "none"]
RecallIdle == rin = NoCall /\ rout = NoCall

WritersIdle == wr = <<>>

NoSignalsFile == [exists |-> FALSE, blocks |-> <<>>]
CaptureIdle == signals_md = NoSignalsFile

\* What the engine's specification leaves alone, and its value there.
others == <<lockvars, recallvars, wr, signals_md>>
OthersIdle == LockIdle /\ RecallIdle /\ WritersIdle /\ CaptureIdle

IsFile(f, loc) == loc \in Locs /\ f[loc] # Absent

NoDiff == [present |-> FALSE, files |-> {}]

\* A snapshot directory: the files copied into it (Absent: not in it), the
\* proposed files and intel-state as copied, APPLY_RECEIPT.md (<<>>: no such
\* file) and DIFF.txt. broken: a create_snapshot on it has raised. at: the
\* workspace as it was when create_snapshot last ran on the directory.
NoWs == [fs |-> <<>>, proposed |-> <<>>, intel |-> NoIntel]

NoSnap == [files |-> [l \in Locs |-> Absent], hasProposed |-> FALSE,
           proposed |-> [f \in PFiles |-> <<>>], intel |-> NoIntel,
           broken |-> FALSE, receipt |-> <<>>, diff |-> NoDiff, at |-> NoWs]

SnapAt(ts) == IF ts \in DOMAIN snaps THEN snaps[ts] ELSE NoSnap

\* create_snapshot when every copytree returns: copytree(dirs_exist_ok=True)
\* and copy2 write over what the directory holds and remove nothing from it
\* (a file of an earlier snapshot under the same ts stays). The copy of
\* `intelligence` is the proposed files, without intelligence/applied.
create_snapshot(old, f, P, st) ==
  [old EXCEPT !.files = [l \in Locs |->
                           IF Watched(l) /\ f[l] # Absent THEN f[l] ELSE old.files[l]],
              !.hasProposed = TRUE,
              !.proposed = P,
              !.intel = IF st.present THEN st ELSE old.intel,
              !.broken = FALSE,
              !.at = [fs |-> f, proposed |-> P, intel |-> st]]

\* create_snapshot when copytree raises on `intelligence` (the snapshot
\* directory lies inside the subtree being copied): the directories before it
\* are copied, memory, maintenance and SNAPSHOT_FILES are not; hp says whether
\* the proposed files were copied before the exception left the loop.
create_snapshot_raised(old, f, P, st, hp) ==
  [old EXCEPT !.files = [l \in Locs |->
                           IF CopiedBeforeRaise(l) /\ f[l] # Absent
                             THEN f[l] ELSE old.files[l]],
              !.hasProposed = old.hasProposed \/ hp,
              !.proposed = IF hp THEN P ELSE old.proposed,
              !.broken = TRUE,
              !.at = [fs |-> f, proposed |-> P, intel |-> st]]

\* A restore that copies nothing back.
restore_nothing(snap, f) == f

\* restore_snapshot: every file of the snapshot is copied over the
\* workspace (copytree with dirs_exist_ok, copy2); nothing of the workspace
\* is removed.
restore_files(snap, f) ==
  [l \in Locs |-> IF Watched(l) /\ snap.files[l] # Absent THEN snap.files[l] ELSE f[l]]

restore_proposed(snap, P) == IF snap.hasProposed THEN snap.proposed ELSE P

\* A restore that leaves an intel-state without last_apply_ts.
restore_intel_unstamped(snap, st) == EmptyIntel

restore_intel(snap, st) == IF snap.intel.present THEN snap.intel ELSE st

\* write_receipt: APPLY_RECEIPT.md written anew
write_receipt(p, status) ==
  << <<"ProposalId", p.ProposalId>>, <<"Risk", p.Risk>>, <<"Status", status>> >>

\* An update_receipt that appends nothing.
update_receipt_silent(receipt, post_checks, status) == receipt

\* update_receipt: lines appended to the receipt
update_receipt(receipt, post_checks, status) ==
  receipt \o << <<"PostChecks", post_checks>>, <<"Delta", "">>,
                <<"FinalStatus", status>> >>

\* execute_op: (success, message) and the files as the op left them.
execute_op(f, op) ==
  LET loc == JoinWs(op.file)
  IN IF ~IsFile(f, loc) THEN [ok |-> FALSE, fs |-> f, msg |-> "File not found"]
     ELSE LET r == Dispatch(f[loc], op)
          IN [ok |-> r.ok, fs |-> [f EXCEPT ![loc] = r.lines], msg |-> r.msg]

\* generate_diff_artifact: the files of files_touched whose lines in the
\* snapshot directory differ from those in the workspace. An absolute
\* rel_path joins to the same file on both sides.
OldLines(snap, f, file) ==
  LET loc == JoinWs(file)
  IN IF file # <<>> /\ file[1] = "/" THEN (IF IsFile(f, loc) THEN f[loc] ELSE <<>>)
     ELSE IF loc \in Locs /\ Watched(loc) /\ file = loc /\ snap.files[loc] # Absent
       THEN snap.files[loc]
     ELSE <<>>

NewLines(f, file) == LET loc == JoinWs(file) IN IF IsFile(f, loc) THEN f[loc] ELSE <<>>

generate_diff_artifact(snap, f, files_touched) ==
  [present |-> TRUE,
   files |-> {file \in files_touched : OldLines(snap, f, file) # NewLines(f, file)}]

\* update_last_apply_ts
update_last_apply_ts(st, t) ==
  [st EXCEPT !.present = TRUE, !.last_t = t, !.last_z = TRUE]

\* What a call left in `last`. pre is the workspace when the call began.
Here == [fs |-> fs, proposed |-> proposed, intel |-> intel]

Ret(op, pid, dry, ok, reason, ts, k, pre, chained) ==
  [op |-> op, pid |-> pid, dry |-> dry, ok |-> ok, reason |-> reason, ts |-> ts,
   k |-> k, pre |-> pre, chained |-> chained]

NoRun == [pid |-> "", source |-> 0, proposal |-> BaseP, ts |-> -1, i |-> 0,
          pre |-> NoWs]

\* -------------------------------------------------------- initial workspaces

\* decisions/DECISIONS.md: D-1 with a History list, D-2 constitutional
\* (enforcement: invariant) with a BEGIN..END range.
DEC0 == <<Hdr("D-1"), Fld("Status", "active"), Fld("History", ""), Item("created"),
          Blank,
          Hdr("D-2"), Fld("Status", "active"), Sig("enforcement", "invariant"),
          Txt("BEGIN"), Txt("body"), Txt("END")>>

fs0 == [l \in Locs |->
          CASE l = DEC -> DEC0
            [] l = ROGUE -> Absent
            [] l = MEM -> <<Txt("memory")>>
            [] l = README -> <<Txt("readme")>>
            [] l = OUT -> <<Txt("outside")>>
            [] l = ETC -> <<Txt("root:x:0:0")>>]

NewBlock == <<Hdr("D-9"), Fld("Status", "active")>>

Append_(file) == [NoOp EXCEPT !.op = "append_block", !.file = file, !.patch = NewBlock]
A_DEC == Append_(DEC)
A_MEM == Append_(MEM)
A_README == Append_(README)
A_UP == Append_(<<"..", "outside.md">>)
A_ABS == Append_(<<"/", "etc", "passwd">>)
A_LINK == Append_(<<"escape_link", "passwd">>)
A_MISS == Append_(<<"decisions", "MISSING.md">>)
U_OK == [NoOp EXCEPT !.op = "update_field", !.file = DEC, !.target = "D-1",
                     !.field = "Status", !.value = "done"]
U_BAD == [U_OK EXCEPT !.target = "D-404"]
\* An update of the block that A_DEC appends.
U_NEW == [U_OK EXCEPT !.target = "D-9"]
LI == [NoOp EXCEPT !.op = "append_list_item", !.file = DEC, !.target = "D-1",
                   !.list = "History", !.item = "\"quoted\""]
SS == [NoOp EXCEPT !.op = "set_status", !.file = DEC, !.target = "D-1",
                   !.status = "done", !.history = "closed"]
SS_NOHIST == [SS EXCEPT !.target = "D-2"]
IA == [NoOp EXCEPT !.op = "insert_after_block", !.file = DEC, !.target = "D-1",
                   !.patch = NewBlock]
RR == [NoOp EXCEPT !.op = "replace_range", !.file = DEC, !.target = "D-2",
                   !.rstart = "BEGIN", !.rend = "END", !.patch = <<Txt("new body")>>]
SUP == [NoOp EXCEPT !.op = "supersede_decision", !.file = DEC, !.target = "D-1",
                    !.new_block = NewBlock]
SUP_INV == [SUP EXCEPT !.target = "D-2"]

\* A block appended under an ID the file already has, and a replace_range
\* whose start marker is in the first [D-2] block and whose end marker is in
\* the second.
A_DUP == [Append_(DEC) EXCEPT
            !.patch = <<Hdr("D-2"), Fld("Status", "active"), Txt("tail")>>]
RR_DUP == [RR EXCEPT !.rstart = "body", !.rend = "tail"]

OpsCatalog == { <<A_DEC>>, <<A_DEC, U_BAD>>, <<A_README, U_BAD>>, <<A_UP>>, <<A_ABS>>,
                <<A_LINK, U_BAD>>, <<U_OK, LI>>, <<SS, IA>>, <<RR, SUP>>, <<SUP_INV>>,
                <<SS_NOHIST>>, <<A_MISS>>, <<A_MEM, U_BAD>>, <<A_DEC, U_NEW>>,
                <<SUP, U_BAD>>, <<A_DUP, RR_DUP>> }

\* The workspace was initialised some days ago.
T0 == 10 * DAY

WithOps(ops, listed) ==
  [BaseP EXCEPT !.Ops = ops,
                !.FilesTouched = IF listed THEN {ops[i].file : i \in 1..Len(ops)} ELSE {}]

P1 == WithOps(<<A_DEC>>, TRUE)

\* Proposals validate_proposal has something to say about.
Flawed == { [P1 EXCEPT !.Risk = "extreme"], [P1 EXCEPT !.Type = "note"],
            [P1 EXCEPT !.Status = "applied"], [P1 EXCEPT !.Evidence = ""],
            [P1 EXCEPT !.Rollback = ""], [P1 EXCEPT !.Ops = <<>>],
            [P1 EXCEPT !.Ops = <<[A_DEC EXCEPT !.op = "delete_file"]>>],
            [P1 EXCEPT !.Ops = <<[A_DEC EXCEPT !.file = <<>>]>>],
            [P1 EXCEPT !.Ops = <<[U_OK EXCEPT !.target = ""]>>],
            [P1 EXCEPT !.FilesTouched = {MEM}] }

\* A second block next to P-1: same ops and target, its own id.
P2(status, fp, created) ==
  [P1 EXCEPT !.id = "P-2", !.ProposalId = "P-2", !.Status = status,
             !.Fingerprint = fp, !.Created = created]

Seconds == { P2("staged", compute_fingerprint(P1), -1), P2("staged", NoFp, -1),
             P2("deferred", compute_fingerprint(P1), -1), P2("deferred", NoFp, -1),
             P2("applied", compute_fingerprint(P1), -1),
             P2("rejected", NoFp, T0 - DAY), P2("rejected", NoFp, T0 - 8 * DAY),
             [P2("staged", NoFp, -1) EXCEPT !.TargetBlock = "D-2"] }

StaleFp == compute_fingerprint([P1 EXCEPT !.TargetBlock = "D-0"])

Firsts == { [P1 EXCEPT !.Fingerprint = compute_fingerprint(P1)],
            [P1 EXCEPT !.Fingerprint = StaleFp] }

Intels == { NoIntel,
            [EmptyIntel EXCEPT !.last_t = T0 - 60],
            [EmptyIntel EXCEPT !.last_t = T0 - 60, !.last_z = TRUE],
            [EmptyIntel EXCEPT !.last_t = T0 - 3600],
            [EmptyIntel EXCEPT !.backlog_limit = 1],
            [EmptyIntel EXCEPT !.backlog_limit = 2],
            [EmptyIntel EXCEPT !.backlog_limit = 3] }

Files3(a, b, c) == [f \in PFiles |-> CASE f = 1 -> a [] f = 2 -> b [] f = 3 -> c]

\* The initial <<proposed files, intel-state>> pairs.
InitConfigs ==
  { <<Files3(<<WithOps(ops, listed)>>, <<>>, <<>>), EmptyIntel>> :
      ops \in OpsCatalog, listed \in BOOLEAN }
  \cup { <<Files3(<<>>, <<p>>, <<>>), EmptyIntel>> : p \in Flawed }
  \cup { <<Files3(<<P1>>, <<q>>, <<>>), EmptyIntel>> : q \in Seconds }
  \cup { <<Files3(<<q, P1>>, <<>>, <<>>), EmptyIntel>> : q \in Seconds }
  \cup { <<Files3(<<p>>, <<>>, <<>>), EmptyIntel>> : p \in Firsts }
  \cup { <<Files3(<<P1>>, <<>>, <<P2("staged", NoFp, -1)>>), st>> : st \in Intels }
  \cup { <<Files3(<<WithOps(<<A_DEC, U_BAD>>, TRUE)>>, <<>>, <<>>), st>> :
           st \in {NoIntel} }

Init ==
  /\ fs = fs0
  /\ \E c \in InitConfigs : proposed = c[1] /\ intel = c[2]
  /\ snaps = [t \in {} |-> NoSnap]
  /\ now = T0
  /\ pc = "idle"
  /\ run = NoRun
  /\ last = Ret("none", "", FALSE, "none", "", -1, 0, Here, FALSE)
  /\ n = 0
  /\ OthersIdle

\* ---------------------------------------------------------------- actions

\* The clock advances between two calls: a second, or past the no-touch
\* window.
Tick(d) ==
  /\ pc = "idle"
  /\ n < MaxSteps
  /\ now' = now + d
  /\ n' = n + 1
  /\ UNCHANGED <<fs, proposed, intel, snaps, pc, run, last>>
  /\ UNCHANGED others

\* Something other than the engine writes a file of the workspace, between
\* two calls of the engine.
Mutate(loc, lines) ==
  /\ pc = "idle"
  /\ n < MaxSteps
  /\ fs[loc] # lines
  /\ fs' = [fs EXCEPT ![loc] = lines]
  /\ n' = n + 1
  /\ last' = [last EXCEPT !.op = "mutate"]
  /\ UNCHANGED <<proposed, intel, snaps, now, pc, run>>
  /\ UNCHANGED others

Called == n < MaxSteps /\ n' = n + 1

\* A return before the snapshot that stamps last_apply_ts on its way out.
Returns_stamping(pid, dry, ok, reason) ==
  /\ last' = Ret("apply", pid, dry, ok, reason, -1, -1, Here, FALSE)
  /\ intel' = update_last_apply_ts(intel, now)
  /\ UNCHANGED <<fs, proposed, snaps, now, pc, run>>

\* A return before the snapshot that leaves a snapshot directory behind.
Returns_snapshotting(pid, dry, ok, reason) ==
  /\ last' = Ret("apply", pid, dry, ok, reason, -1, -1, Here, FALSE)
  /\ snaps' = (now :> create_snapshot(SnapAt(now), fs, proposed, intel)) @@ snaps
  /\ UNCHANGED <<fs, proposed, intel, now, pc, run>>

\* A call of apply_proposal that returns before the snapshot.
Returns(pid, dry, ok, reason) ==
  /\ last' = Ret("apply", pid, dry, ok, reason, -1, -1, Here, FALSE)
  /\ UNCHANGED <<fs, proposed, intel, snaps, now, pc, run>>

\* apply_proposal, steps 1 to 3 and the dry-run exit: the gates in the order
\* of the code. preOk is what check_preconditions returns.
ApplyGates(pid, dry, preOk) ==
  /\ pc = "idle"
  /\ Called
  /\ LET hit == find_proposal(proposed, pid)
         p == proposed[hit[1]][hit[2]]
     IN IF hit = <<0, 0>> THEN Returns(pid, dry, "false", "Proposal not found")
        ELSE IF validate_proposal(p) # {}
          THEN Returns(pid, dry, "false", "Validation failed")
        ELSE IF check_fingerprint_dedup(proposed, p)
          THEN Returns(pid, dry, "false", "Duplicate proposal")
        ELSE IF check_backlog_limit(proposed, intel)[2]
          THEN Returns(pid, dry, "false", "Backlog limit exceeded")
        ELSE IF ~check_deferred_cooldown(proposed, p, now)
          THEN Returns(pid, dry, "false", "cooldown")
        ELSE IF ~check_no_touch_window(intel, now) /\ ~dry
          THEN Returns(pid, dry, "false", "No-touch window active")
        ELSE IF ~preOk THEN Returns(pid, dry, "false", "Precondition check failed")
        ELSE IF dry THEN Returns(pid, dry, "true", "Dry run OK")
        ELSE /\ pc' = "snapshot"
             /\ run' = [pid |-> pid, source |-> hit[1], proposal |-> p, ts |-> -1,
                        i |-> 0, pre |-> Here]
             /\ UNCHANGED <<fs, proposed, intel, snaps, now, last>>
  /\ UNCHANGED others

\* apply_proposal, step 4, when create_snapshot returns: the snapshot and
\* the receipt are written.
ApplySnapshot ==
  /\ pc = "snapshot"
  /\ snaps' = (now :> [create_snapshot(SnapAt(now), fs, proposed, intel)
                         EXCEPT !.receipt = write_receipt(run.proposal, "in_progress")])
              @@ snaps
  /\ run' = [run EXCEPT !.ts = now, !.i = 1]
  /\ pc' = "ops"
  /\ UNCHANGED <<fs, proposed, intel, now, last, n>>
  /\ UNCHANGED others

\* apply_proposal, step 4, when create_snapshot raises: the exception leaves
\* apply_proposal, no receipt is written.
ApplySnapshotRaises(hp) ==
  /\ pc = "snapshot"
  /\ snaps' = (now :> create_snapshot_raised(SnapAt(now), fs, proposed, intel, hp))
              @@ snaps
  /\ pc' = "idle"
  /\ run' = NoRun
  /\ last' = Ret("apply", run.pid, FALSE, "raised", "create_snapshot raised", now, -1,
                 run.pre, FALSE)
  /\ UNCHANGED <<fs, proposed, intel, now, n>>
  /\ UNCHANGED others

\* restore_snapshot on the corpus files and intel-state.
Restored(snap, f) ==
  /\ fs' = restore_files(snap, f)
  /\ intel' = restore_intel(snap, intel)

\* A loop over the ops that takes them last to first and goes on after a
\* failure.
ApplyOp_reversed ==
  /\ pc = "ops"
  /\ LET op == run.proposal.Ops[Len(run.proposal.Ops) + 1 - run.i]
         r == execute_op(fs, op)
     IN /\ fs' = r.fs
        /\ run' = [run EXCEPT !.i = @ + 1]
        /\ pc' = IF run.i = Len(run.proposal.Ops) THEN "post" ELSE "ops"
  /\ UNCHANGED <<proposed, intel, snaps, last, now, n>>
  /\ UNCHANGED others

\* apply_proposal, step 5: one turn of the loop over the ops. A failing op
\* restores the snapshot, finalises the receipt and returns.
ApplyOp ==
  /\ pc = "ops"
  /\ LET op == run.proposal.Ops[run.i]
         r == execute_op(fs, op)
         snap == snaps[run.ts]
     IN IF r.ok
          THEN /\ fs' = r.fs
               /\ run' = [run EXCEPT !.i = @ + 1]
               /\ pc' = IF run.i = Len(run.proposal.Ops) THEN "post" ELSE "ops"
               /\ UNCHANGED <<proposed, intel, snaps, last>>
          ELSE /\ Restored(snap, r.fs)
               /\ proposed' = restore_proposed(snap, proposed)
               /\ snaps' = [snaps EXCEPT ![run.ts].receipt =
                              update_receipt(@, "ABORTED: op failure", "rolled_back")]
               /\ last' = Ret("apply", run.pid, FALSE, "false", "Op failed", run.ts,
                              run.i - 1, run.pre, FALSE)
               /\ pc' = "idle"
               /\ run' = NoRun
  /\ UNCHANGED <<now, n>>
  /\ UNCHANGED others

\* apply_proposal, steps 6 to 8: postOk is what check_preconditions returns
\* after the ops.
ApplyFinish(postOk) ==
  /\ pc = "post"
  /\ LET snap == snaps[run.ts]
     IN IF ~postOk
          THEN /\ Restored(snap, fs)
               /\ proposed' =
                    LET P == restore_proposed(snap, proposed)
                    IN [P EXCEPT ![run.source] =
                          _mark_proposal_status(@, run.pid, "rolled_back")]
               /\ snaps' = [snaps EXCEPT ![run.ts].receipt =
                              update_receipt(@, "post-check report", "rolled_back")]
               /\ last' = Ret("apply", run.pid, FALSE, "false", "Post-checks failed",
                              run.ts, -1, run.pre, FALSE)
          ELSE /\ snaps' = [snaps EXCEPT
                    ![run.ts].diff =
                       generate_diff_artifact(snap, fs, run.proposal.FilesTouched),
                    ![run.ts].receipt = update_receipt(@, "post-check report", "applied")]
               /\ proposed' = [proposed EXCEPT ![run.source] =
                                 _mark_proposal_status(@, run.pid, "applied")]
               /\ intel' = update_last_apply_ts(intel, now)
               /\ last' = Ret("apply", run.pid, FALSE, "true", "Applied successfully",
                              run.ts, -1, run.pre, FALSE)
               /\ fs' = fs
  /\ pc' = "idle"
  /\ run' = NoRun
  /\ UNCHANGED <<now, n>>
  /\ UNCHANGED others

\* create_snapshot(ws, ts) called on its own, when it returns.
CreateSnapshot ==
  /\ pc = "idle"
  /\ Called
  /\ snaps' = (now :> create_snapshot(SnapAt(now), fs, proposed, intel)) @@ snaps
  /\ last' = Ret("create_snapshot", "", FALSE, "true", "", now, -1, Here, FALSE)
  /\ UNCHANGED <<fs, proposed, intel, now, pc, run>>
  /\ UNCHANGED others

\* create_snapshot(ws, ts) called on its own, when it raises.
CreateSnapshotRaises(hp) ==
  /\ pc = "idle"
  /\ Called
  /\ snaps' = (now :> create_snapshot_raised(SnapAt(now), fs, proposed, intel, hp))
              @@ snaps
  /\ last' = Ret("create_snapshot", "", FALSE, "raised", "", now, -1, Here, FALSE)
  /\ UNCHANGED <<fs, proposed, intel, now, pc, run>>
  /\ UNCHANGED others

\* restore_snapshot(ws, snap_dir) called on its own.
RestoreSnapshot(ts) ==
  /\ pc = "idle"
  /\ Called
  /\ Restored(SnapAt(ts), fs)
  /\ proposed' = restore_proposed(SnapAt(ts), proposed)
  /\ last' = Ret("restore_snapshot", "", FALSE, "true", "", ts, -1, Here, FALSE)
  /\ UNCHANGED <<snaps, now, pc, run>>
  /\ UNCHANGED others

\* rollback(ws, receipt_ts). chained: the call before it was the successful
\* apply that wrote this receipt; pre is then the workspace before that apply.
Rollback(ts) ==
  /\ pc = "idle"
  /\ Called
  /\ IF ts \notin DOMAIN snaps
       THEN /\ last' = Ret("rollback", "", FALSE, "false", "Snapshot directory not found",
                           ts, -1, Here, FALSE)
            /\ UNCHANGED <<fs, proposed, intel, snaps>>
       ELSE /\ Restored(snaps[ts], fs)
            /\ proposed' = restore_proposed(snaps[ts], proposed)
            /\ snaps' = [snaps EXCEPT ![ts].receipt =
                           IF @ = <<>> THEN @
                           ELSE @ \o << <<"RolledBack", "now">>,
                                        <<"FinalStatus", "rolled_back">> >>]
            /\ LET chained == last.op = "apply" /\ last.ok = "true" /\ ~last.dry
                                /\ last.ts = ts
               IN last' = Ret("rollback", IF chained THEN last.pid ELSE "", FALSE, "true",
                              "", ts, -1, IF chained THEN last.pre ELSE Here, chained)
  /\ UNCHANGED <<now, pc, run>>
  /\ UNCHANGED others

\* The proposal ids a caller passes: one that is in the proposed files and
\* one that is not.
Pids == {"P-1", "P-404"}

\* The receipt timestamps a caller may pass: those of the snapshots and one
\* that names no directory.
NoSuchTs == T0 - DAY

Next ==
  \/ \E d \in {1, NoTouchSecs} : Tick(d)
  \/ \E loc \in {DEC, ROGUE} : \E lines \in {<<Txt("rogue")>>, Absent} : Mutate(loc, lines)
  \/ \E pid \in Pids, dry \in BOOLEAN, preOk \in BOOLEAN :
       ApplyGates(pid, dry, preOk)
  \/ ApplySnapshot
  \/ \E hp \in BOOLEAN : ApplySnapshotRaises(hp)
  \/ ApplyOp
  \/ \E postOk \in BOOLEAN : ApplyFinish(postOk)
  \/ CreateSnapshot
  \/ \E hp \in BOOLEAN : CreateSnapshotRaises(hp)
  \/ \E ts \in DOMAIN snaps : RestoreSnapshot(ts)
  \/ \E ts \in DOMAIN snaps \cup {NoSuchTs} : Rollback(ts)

Spec == Init /\ [][Next]_vars

\* ------------------------------------------------------------------ claims

WatchedEqual(f, g) == \A l \in Locs : Watched(l) => f[l] = g[l]

\* The block apply_proposal works on, in the proposed files P.
Found(P, pid) == LET hit == find_proposal(P, pid) IN P[hit[1]][hit[2]]

LastLine(receipt) == receipt[Len(receipt)]

HasLine(receipt, line) == \E i \in 1..Len(receipt) : receipt[i] = line

\* The files the ops of p name, as locations of the model.
TargetLocs(p) == {JoinWs(file) : file \in OpsFiles(p)} \cap Locs

Escapes(file) ==
  \/ file[1] = "/"
  \/ \E i \in 1..Len(file) : file[i] = ".."
  \/ ~InsideRoot(JoinWs(file))

\* Another block than the one apply_proposal works on that is staged or
\* deferred: its position in the proposed files.
Others(P, pid) ==
  {pos \in PFiles \X (1..3) :
     /\ pos[2] <= Len(P[pos[1]])
     /\ pos # find_proposal(P, pid)
     /\ P[pos[1]][pos[2]].Status \in {"staged", "deferred"}}

\* C1: after restore_snapshot(S) on a snapshot S that create_snapshot
\* returned, whatever was written to the watched subtrees since, every watched
\* location is as it was when S was taken: files of S have the content of S,
\* and a file that did not exist then does not exist.
C1_RestoreByteEqual ==
  (last.op = "restore_snapshot" /\ ~snaps[last.ts].broken)
    => /\ WatchedEqual(fs, snaps[last.ts].at.fs)
       /\ proposed = snaps[last.ts].at.proposed
       /\ intel = snaps[last.ts].at.intel

C7_ValidateRejectsEscapes ==
  pc # "idle" => \A i \in 1..Len(run.proposal.Ops) : ~Escapes(run.proposal.Ops[i].file)

\* C8: no step of apply_proposal's op loop changes a file outside the
\* workspace root.
C8_NoWriteOutsideRoot ==
  [][pc = "ops" => \A l \in Locs : ~InsideRoot(l) => fs'[l] = fs[l]]_vars

\* C9: apply_proposal fails with a Duplicate reason only if some block other
\* than the proposal's own is staged or deferred and carries the proposal's
\* fingerprint.
C9_DedupNeverSelfMatches ==
  (last.op = "apply" /\ last.reason = "Duplicate proposal")
    => \E pos \in Others(last.pre.proposed, last.pid) :
         last.pre.proposed[pos[1]][pos[2]].Fingerprint
           = compute_fingerprint(Found(last.pre.proposed, last.pid))

\* C10: when another block, with a different ProposalId, is staged or deferred
\* and has the fingerprint of the proposal (same Type, TargetBlock and ops),
\* stored in a Fingerprint field or not, apply_proposal does not get to the
\* snapshot.
C10_DuplicateStopsBeforeSnapshot ==
  pc = "snapshot"
    => ~ \E pos \in Others(proposed, run.pid) :
           /\ proposed[pos[1]][pos[2]].ProposalId # run.pid
           /\ compute_fingerprint(proposed[pos[1]][pos[2]])
                = compute_fingerprint(run.proposal)

\* The time of last_apply_ts is less than ten minutes before now.
InNoTouchWindow(st, t) ==
  st.present /\ st.last_t # -1 /\ t - st.last_t < NoTouchSecs

\* C11: with last_apply_ts (a stamp ending in Z, as update_last_apply_ts
\* writes it) less than ten minutes old, check_no_touch_window refuses and no
\* non-dry-run apply_proposal gets past the no-touch gate to the snapshot.
C11_NoTouchWindowBlocks ==
  pc = "snapshot" => ~(run.pre.intel.last_z /\ InNoTouchWindow(run.pre.intel, now))

\* The gates of apply_proposal other than the no-touch window let pid pass.
OtherGatesPass(pid, preOk) ==
  /\ find_proposal(proposed, pid) # <<0, 0>>
  /\ validate_proposal(Found(proposed, pid)) = {}
  /\ ~check_fingerprint_dedup(proposed, Found(proposed, pid))
  /\ ~check_backlog_limit(proposed, intel)[2]
  /\ check_deferred_cooldown(proposed, Found(proposed, pid), now)
  /\ preOk

\* C12: a dry-run apply_proposal that passes the other gates returns success,
\* inside the no-touch window too, and every dry run leaves the corpus files,
\* the proposed files, intel-state (last_apply_ts) and the snapshot directories
\* with their receipts as they were, and executes no op.
C12_DryRunChangesNothing ==
  [][\A pid \in Pids, preOk \in BOOLEAN :
       ApplyGates(pid, TRUE, preOk)
         => /\ UNCHANGED <<fs, proposed, intel, snaps, pc>>
            /\ OtherGatesPass(pid, preOk) => last'.ok = "true"]_vars

\* C12 happens: a dry run has returned success inside a no-touch window that
\* check_no_touch_window reports.
C12_Witness ==
  /\ last.op = "apply" /\ last.dry /\ last.ok = "true"
  /\ ~check_no_touch_window(intel, now)
  /\ fs = last.pre.fs

\* Some gate of apply_proposal refuses pid.
GateRefuses(pid, dry, preOk) ==
  \/ ~OtherGatesPass(pid, preOk)
  \/ ~dry /\ ~check_no_touch_window(intel, now)

\* C13: an apply_proposal that a gate refuses (proposal not found, validation,
\* duplicate, backlog, cooldown, no-touch window, preconditions) returns
\* failure and leaves everything as it was: the corpus files, the proposed
\* files with the proposal's Status, intel-state, the snapshot directories and
\* receipts; no op is executed.
C13_GateFailureChangesNothing ==
  [][\A pid \in Pids, dry \in BOOLEAN, preOk \in BOOLEAN :
       (ApplyGates(pid, dry, preOk) /\ GateRefuses(pid, dry, preOk))
         => /\ last'.op = "apply" /\ last'.ok = "false" /\ last'.pid = pid
            /\ UNCHANGED <<fs, proposed, intel, snaps, pc>>]_vars

\* C13 happens: an apply_proposal was refused at the last gate, after
\* something had been written to the workspace.
C13_Witness ==
  /\ last.op = "apply" /\ last.ok = "false"
  /\ last.reason = "Precondition check failed"
  /\ fs # fs0
  /\ fs = last.pre.fs /\ proposed = last.pre.proposed /\ intel = last.pre.intel

\* The call that returned r was an apply_proposal that executed an op of its
\* proposal with success.
ExecutedOps(r) ==
  /\ r.op = "apply" /\ r.ts # -1
  /\ \/ r.ok = "true"
     \/ r.reason = "Post-checks failed"
     \/ r.reason = "Op failed" /\ r.k >= 1

RECURSIVE InOrder(_, _, _, _)
InOrder(f, ops, i, upto) ==
  IF i > Len(ops) \/ i > upto THEN [fs |-> f, failed |-> -1]
  ELSE LET r == execute_op(f, ops[i])
       IN IF r.ok THEN InOrder(r.fs, ops, i + 1, upto)
          ELSE [fs |-> r.fs, failed |-> i - 1]

StatusOf(lines, target) ==
  LET b == get_by_id(lines, target)
      i == IndexOf([j \in 1..Len(b) |->
                      IF b[j].k = "fld" /\ b[j].a = "Status" THEN "y" ELSE "n"], "y", 1)
  IN IF i = 0 THEN "" ELSE b[i].b

\* How many of the lines are the header of block id.
HdrCount(lines, id) == Cardinality({i \in 1..Len(lines) : IsTargetHdr(lines[i], id)})

\* In files f, against the files pre before the apply: the supersede op o has
\* brought the old decision to superseded exactly if its new block is appended.
SupersedeIff(f, pre, o) ==
  LET loc == JoinWs(o.file)
      new_block == IF o.new_block # <<>> THEN o.new_block ELSE o.patch
  IN (StatusOf(f[loc], o.target) = "superseded"
        /\ StatusOf(pre[loc], o.target) # "superseded")
     <=> HdrCount(f[loc], new_block[1].a) > HdrCount(pre[loc], new_block[1].a)

SupersedeOps(p) ==
  {p.Ops[i] : i \in {j \in 1..Len(p.Ops) : p.Ops[j].op = "supersede_decision"}}

SupersedesInvariant(f, o) ==
  /\ o.op = "supersede_decision"
  /\ HasInvariant(get_by_id(f[JoinWs(o.file)], o.target))

\* C17: a supersede_decision on a block with an enforcement = invariant
\* signature is refused: execute_op returns false and leaves every file as it
\* was, and when apply_proposal has returned "Op failed" for it the old
\* block's Status is what it was and no new block is in the file.
C17_InvariantSupersedeRefused ==
  /\ (pc = "ops" /\ SupersedesInvariant(fs, run.proposal.Ops[run.i]))
       => LET r == execute_op(fs, run.proposal.Ops[run.i])
          IN ~r.ok /\ r.fs = fs
  /\ (pc = "idle" /\ last.op = "apply" /\ last.reason = "Op failed")
       => LET o == Found(last.pre.proposed, last.pid).Ops[last.k + 1]
              loc == JoinWs(o.file)
          IN (last.k = 0 /\ SupersedesInvariant(last.pre.fs, o))
               => /\ StatusOf(fs[loc], o.target) = StatusOf(last.pre.fs[loc], o.target)
                  /\ HdrCount(fs[loc], "D-9") = HdrCount(last.pre.fs[loc], "D-9")

\* C17 happens: apply_proposal has returned "Op failed" for a supersede of
\* the invariant-protected D-2, which is still active.
C17_Witness ==
  /\ pc = "idle" /\ last.op = "apply" /\ last.reason = "Op failed" /\ last.k = 0
  /\ SupersedesInvariant(last.pre.fs, Found(last.pre.proposed, last.pid).Ops[1])
  /\ StatusOf(fs[DEC], "D-2") = "active"
  /\ HdrCount(fs[DEC], "D-9") = 0


\* The IDs of the block headers of a file, in file order.
RECURSIVE Headers(_)
Headers(lines) ==
  IF lines = <<>> THEN <<>>
  ELSE IF IsAnyHdr(lines[1]) THEN <<lines[1].a>> \o Headers(Tail(lines))
  ELSE Headers(Tail(lines))

\* a is b with some elements left out.
RECURSIVE IsSubseq(_, _)
IsSubseq(a, b) ==
  IF a = <<>> THEN TRUE
  ELSE IF b = <<>> THEN FALSE
  ELSE IF a[1] = b[1] THEN IsSubseq(Tail(a), Tail(b))
  ELSE IsSubseq(a, Tail(b))

\* C18: when an op of the pipeline succeeds, every block header that was in
\* a file before the op is in it after the op, in the same relative order.
C18_HeadersSurviveOps ==
  [][(pc = "ops" /\ execute_op(fs, run.proposal.Ops[run.i]).ok)
       => \A l \in Locs : IsSubseq(Headers(fs[l]), Headers(fs'[l]))]_vars


\* Snapshot directory ts holds the receipt of an apply attempt.
TakenByApply(ts) == ts \in DOMAIN snaps /\ snaps[ts].receipt # <<>>

\* C19: an apply attempt that takes a snapshot takes it in a directory that
\* no earlier attempt has written, also when both attempts start within the
\* same second, and leaves every existing snapshot directory as it is.
C19_DistinctSnapshotDirs ==
  [][(pc = "snapshot" /\ pc' = "ops")
       => /\ ~TakenByApply(run'.ts)
          /\ \A t \in DOMAIN snaps : TakenByApply(t) => snaps'[t] = snaps[t]]_vars


\* The exit status of the command line for a call that ended as r:
\* sys.exit(0 if ok else 1) after rollback and after apply_proposal; an
\* exception that leaves apply_proposal ends the interpreter with status 1.
ExitCode(r) == IF r.ok = "true" THEN 0 ELSE 1

\* C20: the command line exits with 0 when the proposal was applied, the dry
\* run succeeded or the rollback succeeded, with 2 when the proposal failed
\* validation, and with 1 after every other failure.
C20_ExitCodes ==
  (pc = "idle" /\ last.op \in {"apply", "rollback"})
    => ExitCode(last) = IF last.ok = "true" THEN 0
                        ELSE IF last.reason = "Validation failed" THEN 2
                        ELSE 1


\* ------------------------------------------------------ filelock.py: FileLock

\* age > 300 in _is_stale
STALE_AGE == 300

\* The variables of the engine, and the engine at rest: the processes of
\* this specification do not call it.
enginevars == <<fs, proposed, intel, snaps, pc, run, last>>

EngineIdle ==
  /\ fs = fs0
  /\ proposed = Files3(<<P1>>, <<>>, <<>>)
  /\ intel = EmptyIntel
  /\ snaps = [t \in {} |-> NoSnap]
  /\ now = T0
  /\ pc = "idle"
  /\ run = NoRun
  /\ last = Ret("none", "", FALSE, "none", "", -1, 0, Here, FALSE)
  /\ n = 0

LockInit == LockIdle /\ EngineIdle /\ RecallIdle /\ WritersIdle /\ CaptureIdle

\* Process p goes to `to`; the lock file becomes f.
LockStep(p, to, f) ==
  /\ p \in alive
  /\ lpc' = [lpc EXCEPT ![p] = to]
  /\ lockfile' = f
  /\ UNCHANGED <<alive, now, n, enginevars, recallvars, wr, signals_md>>

\* acquire, line 62: os.open(lock_path, O_CREAT | O_EXCL | O_WRONLY), on
\* entry or after the sleep; FileExistsError leads to _is_stale.
LockOpen(p) ==
  /\ lpc[p] \in {"idle", "open"}
  /\ IF lockfile.exists
       THEN LockStep(p, "check", lockfile)
       ELSE LockStep(p, "write", [exists |-> TRUE, pid |-> 0, by |-> p, mtime |-> now])

\* acquire, lines 64-69: os.write(fd, pid), _os_lock(fd), return. The write
\* goes to the file p created, which lock_path may no longer name; flock on
\* that file succeeds, nobody else has it open for locking.
LockWritePid(p) ==
  /\ lpc[p] = "write"
  /\ LockStep(p, "held",
              IF lockfile.exists /\ lockfile.by = p
                THEN [lockfile EXCEPT !.pid = p, !.mtime = now]
                ELSE lockfile)

\* _is_stale, lines 101-117: the file is read; an empty file is stale, a
\* PID is stale when os.kill(pid, 0) finds no process. A file that is gone
\* raises OSError: the age check follows.
LockIsStale(p) ==
  /\ lpc[p] = "check"
  /\ LockStep(p,
              IF ~lockfile.exists THEN "age"
              ELSE IF lockfile.pid = 0 \/ lockfile.pid \notin alive THEN "break"
              ELSE "wait",
              lockfile)

\* _is_stale, lines 118-124: age = time.time() - getmtime(lock_path),
\* stale when age > 300 or when getmtime raises OSError.
LockAgeCheck(p) ==
  /\ lpc[p] = "age"
  /\ LockStep(p,
              IF ~lockfile.exists \/ now - lockfile.mtime > STALE_AGE
                THEN "break" ELSE "wait",
              lockfile)

\* _break_stale, lines 126-131, and `continue`: os.unlink(lock_path),
\* OSError ignored (the path is a directory, or the directory does not let
\* this user remove the entry), then the exclusive create again.
LockBreakStale(p, removed) ==
  /\ lpc[p] = "break"
  /\ LockStep(p, "open", IF removed THEN NoLockFile ELSE lockfile)

\* acquire, lines 76-83: LockTimeout is raised, or the process sleeps
\* poll_interval and tries again.
LockWait(p, timed_out) ==
  /\ lpc[p] = "wait"
  /\ LockStep(p, IF timed_out THEN "idle" ELSE "open", lockfile)

\* release, lines 85-97, by the process that has returned from acquire:
\* unlock and close its descriptor, os.unlink(lock_path) whatever file that is.
LockRelease(p) ==
  /\ lpc[p] = "held"
  /\ LockStep(p, "idle", NoLockFile)

\* A process dies without cleanup; its lock file stays.
LockCrash(p) ==
  /\ p \in alive
  /\ lpc[p] # "idle"
  /\ alive' = alive \ {p}
  /\ lpc' = [lpc EXCEPT ![p] = "dead"]
  /\ UNCHANGED <<lockfile, now, n, enginevars, recallvars, wr, signals_md>>

\* The clock advances: a second, or past the stale age.
LockTick(d) ==
  /\ n < MaxSteps
  /\ n' = n + 1
  /\ now' = now + d
  /\ UNCHANGED <<lockvars, enginevars, recallvars, wr, signals_md>>

LockNext ==
  \/ \E p \in LockProcs : LockOpen(p)
  \/ \E p \in LockProcs : LockWritePid(p)
  \/ \E p \in LockProcs : LockIsStale(p)
  \/ \E p \in LockProcs : LockAgeCheck(p)
  \/ \E p \in LockProcs, removed \in BOOLEAN : LockBreakStale(p, removed)
  \/ \E p \in LockProcs, timed_out \in BOOLEAN : LockWait(p, timed_out)
  \/ \E p \in LockProcs : LockRelease(p)
  \/ \E p \in LockProcs : LockCrash(p)
  \/ \E d \in {1, STALE_AGE + 1} : LockTick(d)

allvars == <<vars, others>>

LockSpec == LockInit /\ [][LockNext]_allvars

\* C21: at most one live process has returned from acquire() on the path
\* without yet having called release().
C21_MutualExclusion ==
  Cardinality({p \in alive : lpc[p] = "held"}) <= 1

\* C22: an acquirer unlinks an existing lock file only when the file is
\* older than 300 seconds and the PID in it is not a live process.
C22_BreaksOnlyOldAndDead ==
  [][\A p \in LockProcs :
       (lpc[p] = "break" /\ lpc'[p] = "open" /\ lockfile.exists)
         => /\ now - lockfile.mtime > STALE_AGE
            /\ lockfile.pid \notin alive]_allvars


\* ------------------------------------------------------- recall.py: tokens

\* Text is a sequence of characters, a token a sequence of characters.
LOWER == <<"a","b","c","d","e","f","g","h","i","j","k","l","m","n","o","p","q","r","s","t","u","v","w","x","y","z">>
UPPER == <<"A","B","C","D","E","F","G","H","I","J","K","L","M","N","O","P","Q","R","S","T","U","V","W","X","Y","Z">>

\* str.lower() on one character
Lower(c) ==
  IF \E i \in 1..26 : UPPER[i] = c THEN LOWER[CHOOSE i \in 1..26 : UPPER[i] = c] ELSE c

\* word.endswith(suf); word[:-k]
EndsWith(word, suf) ==
  Len(word) >= Len(suf) /\ SubSeq(word, Len(word) - Len(suf) + 1, Len(word)) = suf
Chop(word, k) == SubSeq(word, 1, Len(word) - k)

_STOPWORDS == {
  <<"a">>, <<"a","n">>, <<"t","h","e">>, <<"i","s">>, <<"a","r","e">>, <<"w","a","s">>,
  <<"w","e","r","e">>, <<"b","e">>, <<"b","e","e","n">>, <<"b","e","i","n","g">>,
  <<"h","a","v","e">>, <<"h","a","s">>, <<"h","a","d">>, <<"d","o">>,
  <<"d","o","e","s">>, <<"d","i","d">>, <<"w","i","l","l">>, <<"w","o","u","l","d">>,
  <<"s","h","a","l","l">>, <<"s","h","o","u","l","d">>, <<"m","a","y">>,
  <<"m","i","g","h","t">>, <<"c","a","n">>, <<"c","o","u","l","d">>,
  <<"m","u","s","t">>, <<"a","n","d">>, <<"b","u","t">>, <<"o","r">>, <<"n","o","r">>,
  <<"n","o","t">>, <<"s","o">>, <<"y","e","t">>, <<"f","o","r">>, <<"o","f">>,
  <<"t","o">>, <<"i","n">>, <<"o","n">>, <<"a","t">>, <<"b","y">>, <<"w","i","t","h">>,
  <<"f","r","o","m">>, <<"a","s">>, <<"i","n","t","o">>, <<"a","b","o","u","t">>,
  <<"b","e","t","w","e","e","n">>, <<"t","h","r","o","u","g","h">>,
  <<"d","u","r","i","n","g">>, <<"b","e","f","o","r","e">>, <<"a","f","t","e","r">>,
  <<"a","b","o","v","e">>, <<"b","e","l","o","w">>, <<"u","p">>, <<"d","o","w","n">>,
  <<"o","u","t">>, <<"o","f","f">>, <<"o","v","e","r">>, <<"u","n","d","e","r">>,
  <<"a","g","a","i","n">>, <<"f","u","r","t","h","e","r">>, <<"t","h","e","n">>,
  <<"o","n","c","e">>, <<"h","e","r","e">>, <<"t","h","e","r","e">>,
  <<"w","h","e","n">>, <<"w","h","e","r","e">>, <<"w","h","y">>, <<"h","o","w">>,
  <<"a","l","l">>, <<"e","a","c","h">>, <<"e","v","e","r","y">>, <<"b","o","t","h">>,
  <<"f","e","w">>, <<"m","o","r","e">>, <<"m","o","s","t">>, <<"o","t","h","e","r">>,
  <<"s","o","m","e">>, <<"s","u","c","h">>, <<"n","o">>, <<"o","n","l","y">>,
  <<"o","w","n">>, <<"s","a","m","e">>, <<"t","h","a","n">>, <<"t","o","o">>,
  <<"v","e","r","y">>, <<"j","u","s","t">>, <<"b","e","c","a","u","s","e">>,
  <<"i","f">>, <<"w","h","i","l","e">>, <<"t","h","a","t">>, <<"t","h","i","s">>,
  <<"i","t">>, <<"i","t","s">>, <<"w","e">>, <<"t","h","e","y">>, <<"t","h","e","m">>,
  <<"t","h","e","i","r">>, <<"h","e">>, <<"s","h","e">>, <<"h","i","s">>,
  <<"h","e","r">> }

\* if word.endswith(("at", "iz", "bl")): word += "e"
RestoreE(word) ==
  IF EndsWith(word, <<"a","t">>) \/ EndsWith(word, <<"i","z">>) \/ EndsWith(word, <<"b","l">>)
    THEN word \o <<"e">> ELSE word

_stem(word) ==
  IF Len(word) <= 3 THEN word
  ELSE IF EndsWith(word, <<"i","e","s">>) /\ Len(word) > 4
    THEN Chop(word, 3) \o <<"y">>
  ELSE IF EndsWith(word, <<"s","s","e","s">>)
    THEN Chop(word, 2)
  ELSE IF EndsWith(word, <<"n","e","s","s">>)
    THEN Chop(word, 4)
  ELSE IF EndsWith(word, <<"m","e","n","t">>) /\ Len(word) > 5
    THEN Chop(word, 4)
  ELSE IF EndsWith(word, <<"t","i","o","n">>)
    THEN Chop(word, 4) \o <<"t">>
  ELSE IF EndsWith(word, <<"s","i","o","n">>)
    THEN Chop(word, 4) \o <<"s">>
  ELSE IF EndsWith(word, <<"i","z","e","d">>)
    THEN Chop(word, 1)
  ELSE IF EndsWith(word, <<"i","z","i","n","g">>)
    THEN Chop(word, 3) \o <<"e">>
  ELSE IF EndsWith(word, <<"i","z","e">>)
    THEN word
  ELSE IF EndsWith(word, <<"a","t","i","n","g">>)
    THEN Chop(word, 3) \o <<"e">>
  ELSE IF EndsWith(word, <<"a","t","i","o","n">>)
    THEN Chop(word, 5) \o <<"a","t","e">>
  ELSE IF EndsWith(word, <<"o","u","s","l","y">>)
    THEN Chop(word, 5) \o <<"o","u","s">>
  ELSE IF EndsWith(word, <<"o","u","s">>) /\ Len(word) > 5
    THEN word
  ELSE IF EndsWith(word, <<"f","u","l">>)
    THEN Chop(word, 3)
  ELSE IF EndsWith(word, <<"a","l","l","y">>)
    THEN Chop(word, 4) \o <<"a","l">>
  ELSE IF EndsWith(word, <<"a","b","l","y">>)
    THEN Chop(word, 4) \o <<"a","b","l","e">>
  ELSE IF EndsWith(word, <<"i","b","l","y">>)
    THEN Chop(word, 4) \o <<"i","b","l","e">>
  ELSE IF EndsWith(word, <<"a","b","l","e">>) /\ Len(word) > 5
    THEN Chop(word, 4)
  ELSE IF EndsWith(word, <<"i","b","l","e">>) /\ Len(word) > 5
    THEN Chop(word, 4)
  ELSE IF EndsWith(word, <<"i","n","g">>) /\ Len(word) > 4
    THEN RestoreE(Chop(word, 3))
  ELSE IF EndsWith(word, <<"a","t","e","d">>) /\ Len(word) > 5
    THEN Chop(word, 1)
  ELSE IF EndsWith(word, <<"e","d">>) /\ Len(word) > 4
    THEN RestoreE(Chop(word, 2))
  ELSE IF EndsWith(word, <<"l","y">>) /\ Len(word) > 4
    THEN Chop(word, 2)
  ELSE IF EndsWith(word, <<"e","r">>) /\ Len(word) > 4
    THEN Chop(word, 2)
  ELSE IF EndsWith(word, <<"e","s","t">>) /\ Len(word) > 4
    THEN Chop(word, 3)
  ELSE IF EndsWith(word, <<"s">>) /\ ~EndsWith(word, <<"s","s">>) /\ Len(word) > 3
    THEN Chop(word, 1)
  ELSE word

\* re.findall(r"[a-z0-9_]+", text): cur is the run of token characters so far.
RECURSIVE Findall(_, _, _)
Findall(text, i, cur) ==
  LET done == IF cur = <<>> THEN <<>> ELSE <<cur>>
      tokenchar(c) == (\E k \in 1..26 : LOWER[k] = c)
                        \/ c \in {"0","1","2","3","4","5","6","7","8","9","_"}
  IN IF i > Len(text) THEN done
     ELSE IF tokenchar(text[i]) THEN Findall(text, i + 1, Append(cur, text[i]))
     ELSE done \o Findall(text, i + 1, <<>>)

tokenize(text) ==
  LET kept(t) == t \notin _STOPWORDS /\ Len(t) > 1
      ts == SelectSeq(Findall([i \in 1..Len(text) |-> Lower(text[i])], 1, <<>>), kept)
  IN [i \in 1..Len(ts) |-> _stem(ts[i])]

\* " ".join(tokens)
RECURSIVE Join(_)
Join(tokens) ==
  IF tokens = <<>> THEN <<>>
  ELSE IF Len(tokens) = 1 THEN tokens[1]
  ELSE tokens[1] \o <<" ">> \o Join(Tail(tokens))

_QUERY_EXPANSIONS ==
     (<<"a","u","t","h">> :> <<<<"a","u","t","h","e","n","t","i","c","a","t","i","o","n">>, <<"l","o","g","i","n">>, <<"o","a","u","t","h">>, <<"j","w","t">>, <<"s","e","s","s","i","o","n">>>>)
  @@ (<<"a","u","t","h","e","n","t","i","c","a","t","i","o","n">> :> <<<<"a","u","t","h">>, <<"l","o","g","i","n">>, <<"o","a","u","t","h">>, <<"j","w","t">>>>)
  @@ (<<"d","b">> :> <<<<"d","a","t","a","b","a","s","e">>, <<"p","o","s","t","g","r","e","s","q","l">>, <<"m","y","s","q","l">>, <<"s","q","l","i","t","e">>, <<"s","q","l">>>>)
  @@ (<<"d","a","t","a","b","a","s","e">> :> <<<<"d","b">>, <<"p","o","s","t","g","r","e","s","q","l">>, <<"m","y","s","q","l">>, <<"s","q","l","i","t","e">>, <<"s","q","l">>>>)
  @@ (<<"a","p","i">> :> <<<<"e","n","d","p","o","i","n","t">>, <<"r","e","s","t">>, <<"g","r","a","p","h","q","l">>, <<"r","o","u","t","e">>, <<"h","a","n","d","l","e","r">>>>)
  @@ (<<"d","e","p","l","o","y">> :> <<<<"d","e","p","l","o","y","m","e","n","t">>, <<"c","i">>, <<"c","d">>, <<"p","i","p","e","l","i","n","e">>, <<"r","e","l","e","a","s","e">>>>)
  @@ (<<"d","e","p","l","o","y","m","e","n","t">> :> <<<<"d","e","p","l","o","y">>, <<"c","i">>, <<"c","d">>, <<"p","i","p","e","l","i","n","e">>, <<"r","e","l","e","a","s","e">>>>)
  @@ (<<"b","u","g">> :> <<<<"e","r","r","o","r">>, <<"i","s","s","u","e">>, <<"d","e","f","e","c","t">>, <<"f","i","x">>, <<"r","e","g","r","e","s","s","i","o","n">>>>)
  @@ (<<"e","r","r","o","r">> :> <<<<"b","u","g">>, <<"e","x","c","e","p","t","i","o","n">>, <<"f","a","i","l","u","r","e">>, <<"c","r","a","s","h">>>>)
  @@ (<<"t","e","s","t">> :> <<<<"t","e","s","t","i","n","g">>, <<"p","y","t","e","s","t">>, <<"u","n","i","t","t","e","s","t">>, <<"s","p","e","c">>, <<"c","o","v","e","r","a","g","e">>>>)
  @@ (<<"s","e","c","u","r","i","t","y">> :> <<<<"v","u","l","n","e","r","a","b","i","l","i","t","y">>, <<"a","u","t","h">>, <<"e","n","c","r","y","p","t","i","o","n">>, <<"x","s","s">>, <<"i","n","j","e","c","t","i","o","n">>>>)
  @@ (<<"p","e","r","f">> :> <<<<"p","e","r","f","o","r","m","a","n","c","e">>, <<"l","a","t","e","n","c","y">>, <<"t","h","r","o","u","g","h","p","u","t">>, <<"o","p","t","i","m","i","z","a","t","i","o","n">>>>)
  @@ (<<"p","e","r","f","o","r","m","a","n","c","e">> :> <<<<"p","e","r","f">>, <<"l","a","t","e","n","c","y">>, <<"t","h","r","o","u","g","h","p","u","t">>, <<"o","p","t","i","m","i","z","a","t","i","o","n">>, <<"s","p","e","e","d">>>>)
  @@ (<<"c","o","n","f","i","g">> :> <<<<"c","o","n","f","i","g","u","r","a","t","i","o","n">>, <<"s","e","t","t","i","n","g","s">>, <<"e","n","v">>, <<"e","n","v","i","r","o","n","m","e","n","t">>>>)
  @@ (<<"i","n","f","r","a">> :> <<<<"i","n","f","r","a","s","t","r","u","c","t","u","r","e">>, <<"s","e","r","v","e","r">>, <<"c","l","o","u","d">>, <<"d","e","v","o","p","s">>>>)

\* The synonyms the loops of expand_query come to, in their order: for each
\* token, those of the token and then those of its stem.
RECURSIVE Synonyms(_)
Synonyms(tokens) ==
  LET of(lookup) == IF lookup \in DOMAIN _QUERY_EXPANSIONS
                      THEN _QUERY_EXPANSIONS[lookup] ELSE <<>>
  IN IF tokens = <<>> THEN <<>>
     ELSE of(tokens[1]) \o of(_stem(tokens[1])) \o Synonyms(Tail(tokens))

\* The loop body without the test `stemmed not in added`.
RECURSIVE expand_no_dedup(_, _, _, _)
expand_no_dedup(expanded, synonyms, i, bound) ==
  IF i > Len(synonyms) THEN expanded
  ELSE IF Len(expanded) < bound
    THEN expand_no_dedup(Append(expanded, _stem(synonyms[i])), synonyms, i + 1, bound)
    ELSE expand_no_dedup(expanded, synonyms, i + 1, bound)

\* The loop body of expand_query from synonym i on; `added` is the set of the
\* elements of `expanded` throughout.
RECURSIVE ExpandWith(_, _, _, _)
ExpandWith(expanded, synonyms, i, bound) ==
  IF i > Len(synonyms) THEN expanded
  ELSE LET stemmed == _stem(synonyms[i])
           added == {expanded[k] : k \in 1..Len(expanded)}
       IN IF stemmed \notin added /\ Len(expanded) < bound
            THEN ExpandWith(Append(expanded, stemmed), synonyms, i + 1, bound)
            ELSE ExpandWith(expanded, synonyms, i + 1, bound)

expand_query(tokens, max_expansions) ==
  ExpandWith(tokens, Synonyms(tokens), 1, Len(tokens) + max_expansions)

\* ------------------------------------------------------ recall.py: ranking

\* A block as block_parser yields it: _id and Statement are text, refs are
\* the block IDs that _BLOCK_ID_RE finds in its cross-reference fields.
Block(id, statement, status, refs) ==
  [_id |-> id, Statement |-> statement, Status |-> status, refs |-> refs]

\* no filter: every block, whatever its Status
get_all(blocks) == blocks

\* block_parser.get_active: the blocks whose Status is active, todo or doing.
get_active(blocks) ==
  SelectSeq(blocks, LAMBDA b : b.Status \in {"active", "todo", "doing"})

\* extract_field_tokens, flattened: the tokens of _id and of the fields.
FlatTokens(block) == tokenize(block._id) \o tokenize(block.Statement)

\* The loop of build_xref_graph without line 557, the edge back.
RECURSIVE xref_one_way(_, _, _, _)
xref_one_way(graph, all_blocks, i, k) ==
  IF i > Len(all_blocks) THEN graph
  ELSE IF all_blocks[i]._id = <<>> \/ k > Len(all_blocks[i].refs)
    THEN xref_one_way(graph, all_blocks, i + 1, 1)
  ELSE LET bid == all_blocks[i]._id
           ref_id == all_blocks[i].refs[k]
       IN IF ref_id # bid /\ ref_id \in DOMAIN graph
            THEN xref_one_way([graph EXCEPT ![bid] = @ \cup {ref_id}],
                              all_blocks, i, k + 1)
            ELSE xref_one_way(graph, all_blocks, i, k + 1)

\* build_xref_graph from reference k of block i on: an edge in both
\* directions for a reference to another loaded block.
RECURSIVE XrefFrom(_, _, _, _)
XrefFrom(graph, all_blocks, i, k) ==
  IF i > Len(all_blocks) THEN graph
  ELSE IF all_blocks[i]._id = <<>> \/ k > Len(all_blocks[i].refs)
    THEN XrefFrom(graph, all_blocks, i + 1, 1)
  ELSE LET bid == all_blocks[i]._id
           ref_id == all_blocks[i].refs[k]
       IN IF ref_id # bid /\ ref_id \in DOMAIN graph
            THEN XrefFrom([graph EXCEPT ![bid] = @ \cup {ref_id},
                                        ![ref_id] = @ \cup {bid}],
                          all_blocks, i, k + 1)
            ELSE XrefFrom(graph, all_blocks, i, k + 1)

build_xref_graph(all_blocks) ==
  LET block_ids == {all_blocks[i]._id : i \in 1..Len(all_blocks)} \ {<<>>}
  IN XrefFrom([bid \in block_ids |-> {}], all_blocks, 1, 1)

\* Scores are integers, in units of 0.0001 (round(score, 4)); the sums of
\* the graph boosts are kept in units FINE times smaller, in which the
\* decays 0.3 and 0.3 * 0.33 and the factor 0.5 are whole numbers.
FINE == 40000

\* The result loop of recall (lines 679-768): a hit for every block that
\* has tokens and shares one with the query. bm25[i] is what lines 690-755
\* come to for block i, rounded: BM25F, phrase, chunk, recency, status and
\* priority factors, a positive number however the block matches.
RECURSIVE Results(_, _, _, _)
Results(all_blocks, query_tokens, bm25, i) ==
  IF i > Len(all_blocks) THEN <<>>
  ELSE LET block == all_blocks[i]
           flat == FlatTokens(block)
           matches == \E q \in 1..Len(query_tokens), t \in 1..Len(flat) :
                        query_tokens[q] = flat[t]
       IN (IF matches
             THEN <<[_id |-> block._id, score |-> bm25[i], status |-> block.Status,
                     via_graph |-> FALSE]>>
             ELSE <<>>)
          \o Results(all_blocks, query_tokens, bm25, i + 1)

\* sum of f[i] over i in 1..k
RECURSIVE SumTo(_, _)
SumTo(f, k) == IF k = 0 THEN 0 ELSE f[k] + SumTo(f, k - 1)

\* A boost that adds every block that is no hit, however far from the hits.
boost_adds_all(results, all_blocks) ==
  LET scored == {results[i]._id : i \in 1..Len(results)}
  IN results \o SelectSeq([i \in 1..Len(all_blocks) |->
                             [_id |-> all_blocks[i]._id, score |-> 1,
                              status |-> all_blocks[i].Status, via_graph |-> TRUE]],
                          LAMBDA h : h._id \notin scored)

\* Lines 771-812: the two hops of the neighbour boost, the boosts applied to
\* the hits there are and the neighbours added as hits. New hits are added
\* in the order of all_blocks.
GraphBoost(results, all_blocks) ==
  LET xref_graph == build_xref_graph(all_blocks)
      ids == DOMAIN xref_graph
      nbrs(id) == IF id \in ids THEN xref_graph[id] ELSE {}
      scored == {results[i]._id : i \in 1..Len(results)}
      part(nid) == IF nid \in scored THEN 1 ELSE 2
      \* hop 0: decay 0.3 of each hit's score to each of its neighbours
      add0(nid) == SumTo([i \in 1..Len(results) |->
                            IF nid \in nbrs(results[i]._id)
                              THEN (results[i].score * 6000) * part(nid) ELSE 0],
                         Len(results))
      found0 == {nid \in ids : \E i \in 1..Len(results) : nid \in nbrs(results[i]._id)}
      \* hop 1: decay 0.3 * 0.33 from the neighbours found that are no hits
      seeds == found0 \ scored
      seedseq == [i \in 1..Len(all_blocks) |->
                    IF all_blocks[i]._id \in seeds
                         /\ \A j \in 1..(i - 1) : all_blocks[j]._id # all_blocks[i]._id
                      THEN all_blocks[i]._id ELSE <<>>]
      add1(nid) == SumTo([i \in 1..Len(seedseq) |->
                            IF seedseq[i] # <<>> /\ nid \in nbrs(seedseq[i])
                              THEN ((add0(seedseq[i]) \div 2000) * 99) * part(nid) ELSE 0],
                         Len(seedseq))
      found == found0 \cup {nid \in ids : \E s \in seeds : nid \in nbrs(s)}
      neighbor_scores(nid) == add0(nid) + add1(nid)
      round4(x) == (x + (FINE \div 2)) \div FINE
      boosted == [i \in 1..Len(results) |->
                    IF results[i]._id \in found
                      THEN [results[i] EXCEPT
                              !.score = round4(@ * FINE + neighbor_scores(results[i]._id)),
                              !.via_graph = TRUE]
                      ELSE results[i]]
      new == SelectSeq([i \in 1..Len(all_blocks) |->
                          IF all_blocks[i]._id \in found \ scored
                               /\ \A j \in 1..(i - 1) : all_blocks[j]._id # all_blocks[i]._id
                            THEN LET nb == all_blocks[CHOOSE j \in 1..Len(all_blocks) :
                                             /\ all_blocks[j]._id = all_blocks[i]._id
                                             /\ \A k \in (j + 1)..Len(all_blocks) :
                                                  all_blocks[k]._id # all_blocks[i]._id]
                                 IN [_id |-> nb._id,
                                     score |-> round4(neighbor_scores(nb._id)),
                                     status |-> nb.Status, via_graph |-> TRUE]
                            ELSE <<>>],
                       LAMBDA h : h # <<>>)
  IN boosted \o new

\* recall without line 818: the hits as they were appended.
unsorted(hits) == hits

\* results.sort(key=score, reverse=True): stable, hit i goes after the hits
\* before it whose score is not lower.
RECURSIVE SortDesc(_)
SortDesc(hits) ==
  IF hits = <<>> THEN <<>>
  ELSE LET k == Len(hits)
           front == SortDesc(SubSeq(hits, 1, k - 1))
           at == Cardinality({j \in 1..(k - 1) : front[j].score >= hits[k].score})
       IN SubSeq(front, 1, at) \o <<hits[k]>> \o SubSeq(front, at + 1, k - 1)

\* results[:limit + 1]
slice_one_more(results, limit) ==
  SubSeq(results, 1, IF limit + 1 < Len(results) THEN limit + 1 ELSE Len(results))

\* results[:limit] for a limit that is not negative
Slice(results, limit) ==
  SubSeq(results, 1, IF limit < Len(results) THEN limit ELSE Len(results))

\* recall(workspace, query, limit, active_only, graph_boost) on the blocks
\* that the corpus files hold; query_type is what detect_query_type makes of
\* the query.
recall(corpus, query, query_type, limit, active_only, graph_boost, bm25) ==
  LET tokens == tokenize(query)
      query_tokens == expand_query(tokens, 3)
      all_blocks == IF active_only THEN get_active(corpus) ELSE corpus
      results == Results(all_blocks, query_tokens, bm25, 1)
      boosted == IF (graph_boost \/ query_type = "multi-hop") /\ results # <<>>
                   THEN GraphBoost(results, all_blocks) ELSE results
      sorted == SortDesc(boosted)
  IN IF tokens = <<>> \/ all_blocks = <<>> THEN <<>>
     ELSE Slice(sorted, limit)


\* ------------------------------------------------------ recall.py: calls

\* The corpus of the calls: two decisions on the same subject, a superseded
\* decision that both refer to, a rejected one that refers to the superseded
\* one, and a task that refers to itself and to a block that is not loaded.
D01 == <<"D","-","0","1">>
D02 == <<"D","-","0","2">>
D03 == <<"D","-","0","3">>
D04 == <<"D","-","0","4">>
T05 == <<"T","-","0","5">>
D09 == <<"D","-","0","9">>

Corpus ==
  << Block(D01, <<"U","s","e"," ","J","W","T"," ","a","u","t","h">>, "active", <<D02>>),
     Block(D02, <<"S","e","r","v","e","r"," ","s","e","s","s","i","o","n","s">>, "superseded", <<>>),
     Block(D03, <<"U","s","e"," ","J","W","T"," ","a","u","t","h">>, "active", <<D02, D02>>),
     Block(D04, <<"C","o","o","k","i","e"," ","s","t","o","r","e">>, "rejected", <<D02>>),
     Block(T05, <<"R","o","t","a","t","e"," ","a","u","t","h"," ","k","e","y","s">>, "todo", <<T05, D09, D01>>) >>

Texts ==
  { <<"b","e","i","n","g","s">>,
    <<"m","o","m","e","n","t","s">>,
    <<"t","h","e"," ","o","t","h","e","r","s">>,
    <<"J","W","T"," ","a","u","t","h","e","n","t","i","c","a","t","i","o","n"," ","t","o","k","e","n","s">>,
    <<"a","u","t","h"," ","d","b">>,
    <<"t","e","s","t","e","r","s"," ","r","u","n","n","i","n","g">>,
    <<"a"," ","1"," ","g","o">>,
    <<>>,
    <<"F","i","x"," ","t","h","e"," ","l","o","g","i","n"," ","b","u","g">>,
    <<"d","e","p","l","o","y","_","v","2"," ","r","e","l","e","a","s","e">> }

TokenLists ==
  { <<<<"a","u","t","h">>, <<"d","b">>>>,
    <<<<"a","u","t","h">>, <<"l","o","g","i","n">>>>,
    <<<<"a","u","t","h">>, <<"a","u","t","h">>>>,
    <<<<"b","u","g">>>>,
    <<<<"d","e","p","l","o","y">>, <<"t","e","s","t">>, <<"a","p","i">>>>,
    <<>>,
    <<<<"z","z","z">>>>,
    <<<<"a","u","t","h","e","n","t","i","c","a","t","i","o","n">>>> }

Queries ==
  { <<"a","u","t","h">>,
    <<"t","h","e">>,
    <<"J","W","T"," ","s","e","s","s","i","o","n","s">>,
    <<"c","o","o","k","i","e","s">>,
    <<"k","e","y","s">>,
    <<"z","e","b","r","a">> }

\* the keys of _QUERY_TYPE_PARAMS
QueryTypes == {"temporal", "adversarial", "multi-hop", "single-hop"}

MaxLimit == 3
MaxExpansions == 4
Bm25Values == {5000, 10000}

RecallInputs ==
  [fn : {"tokenize"}, text : Texts]
  \cup [fn : {"expand_query"}, tokens : TokenLists, max_expansions : 0..MaxExpansions]
  \cup [fn : {"build_xref_graph"},
        all_blocks : {Corpus, get_active(Corpus), Tail(Corpus), <<>>}]
  \cup [fn : {"recall"}, corpus : {Corpus}, query : Queries,
        query_type : QueryTypes, limit : 0..MaxLimit,
        active_only : BOOLEAN, graph_boost : BOOLEAN,
        bm25 : [1..Len(Corpus) -> Bm25Values]]

RecallInit ==
  rin \in RecallInputs /\ rout = NoCall /\ EngineIdle /\ LockIdle /\ WritersIdle /\ CaptureIdle

Tokenize ==
  /\ rin.fn = "tokenize" /\ rout = NoCall
  /\ rout' = [fn |-> "tokenize", val |-> tokenize(rin.text)]
  /\ UNCHANGED <<rin, vars, lockvars, wr, signals_md>>

ExpandQuery ==
  /\ rin.fn = "expand_query" /\ rout = NoCall
  /\ rout' = [fn |-> "expand_query", val |-> expand_query(rin.tokens, rin.max_expansions)]
  /\ UNCHANGED <<rin, vars, lockvars, wr, signals_md>>

BuildXrefGraph ==
  /\ rin.fn = "build_xref_graph" /\ rout = NoCall
  /\ rout' = [fn |-> "build_xref_graph", val |-> build_xref_graph(rin.all_blocks)]
  /\ UNCHANGED <<rin, vars, lockvars, wr, signals_md>>

\* A call of recall; candidates is the list the same call has at line 818,
\* before it is cut to the limit.
Recall ==
  /\ rin.fn = "recall" /\ rout = NoCall
  /\ rout' = [fn |-> "recall",
              val |-> recall(rin.corpus, rin.query, rin.query_type, rin.limit,
                             rin.active_only, rin.graph_boost, rin.bm25),
              candidates |-> recall(rin.corpus, rin.query, rin.query_type,
                                    Len(rin.corpus), rin.active_only,
                                    rin.graph_boost, rin.bm25)]
  /\ UNCHANGED <<rin, vars, lockvars, wr, signals_md>>

RecallNext == Tokenize \/ ExpandQuery \/ BuildXrefGraph \/ Recall

RecallSpec == RecallInit /\ [][RecallNext]_allvars


\* ------------------------------------------------------ recall.py: claims

AlnumSpace(text) ==
  \A i \in 1..Len(text) :
    \/ text[i] = " "
    \/ text[i] \in {"0", "1", "2", "3", "4", "5", "6", "7", "8", "9"}
    \/ \E k \in 1..26 : text[i] \in {LOWER[k], UPPER[k]}

\* C26: tokenization is idempotent: for a text of alphanumerics and spaces,
\* tokenizing the tokens of the text joined by spaces gives the same tokens.
C26_TokenizeIdempotent ==
  (rout.fn = "tokenize" /\ AlnumSpace(rin.text))
    => tokenize(Join(rout.val)) = rout.val


\* the stems of the synonyms that _QUERY_EXPANSIONS has for the tokens or
\* for their stems
StemmedSynonyms(tokens) ==
  {_stem(s) : s \in UNION {
     {_QUERY_EXPANSIONS[l][i] : i \in 1..Len(_QUERY_EXPANSIONS[l])} :
       l \in ({tokens[k] : k \in 1..Len(tokens)}
              \cup {_stem(tokens[k]) : k \in 1..Len(tokens)})
             \cap DOMAIN _QUERY_EXPANSIONS}}

\* C27: expand_query(T, m) is T, unchanged and in its order, followed by at
\* most m tokens, each the stem of a synonym, none equal to an original token
\* or to another added token.
C27_ExpandQueryAppendsDistinct ==
  rout.fn = "expand_query" =>
    LET T == rin.tokens
        E == rout.val
        k == Len(T)
    IN /\ Len(E) >= k
       /\ SubSeq(E, 1, k) = T
       /\ Len(E) - k <= rin.max_expansions
       /\ \A i \in (k + 1)..Len(E) :
            /\ E[i] \in StemmedSynonyms(T)
            /\ \A j \in 1..Len(E) : j # i => E[j] # E[i]

\* A call that added max_expansions tokens and passed over a synonym that
\* was an original token.
C27_Witness ==
  /\ rout.fn = "expand_query"
  /\ rin.max_expansions > 0
  /\ Len(rout.val) = Len(rin.tokens) + rin.max_expansions
  /\ \E k \in 1..Len(rin.tokens) : rin.tokens[k] \in StemmedSynonyms(rin.tokens)
  /\ Cardinality(StemmedSynonyms(rin.tokens)) > rin.max_expansions + 1


LoadedIds(all_blocks) == {all_blocks[i]._id : i \in 1..Len(all_blocks)}

\* C28: the graph of build_xref_graph is undirected and without self-edges:
\* b is a neighbour of a iff a is one of b, no block is its own neighbour,
\* and every node and every neighbour is the ID of a loaded block.
C28_XrefGraphUndirected ==
  rout.fn = "build_xref_graph" =>
    LET graph == rout.val
        loaded == LoadedIds(rin.all_blocks)
    IN /\ DOMAIN graph \subseteq loaded
       /\ \A a \in DOMAIN graph :
            /\ graph[a] \subseteq loaded
            /\ a \notin graph[a]
            /\ \A b \in DOMAIN graph : b \in graph[a] <=> a \in graph[b]

\* A graph with an edge, built from blocks of which one names itself, one
\* names a block that is not loaded and one names the same block twice.
C28_Witness ==
  /\ rout.fn = "build_xref_graph"
  /\ \E a \in DOMAIN rout.val : rout.val[a] # {}
  /\ \E i \in 1..Len(rin.all_blocks) :
       \E k \in 1..Len(rin.all_blocks[i].refs) :
         rin.all_blocks[i].refs[k] = rin.all_blocks[i]._id
  /\ \E i \in 1..Len(rin.all_blocks) :
       \E k \in 1..Len(rin.all_blocks[i].refs) :
         rin.all_blocks[i].refs[k] \notin LoadedIds(rin.all_blocks)
  /\ \E i \in 1..Len(rin.all_blocks) :
       \E k, l \in 1..Len(rin.all_blocks[i].refs) :
         k # l /\ rin.all_blocks[i].refs[k] = rin.all_blocks[i].refs[l]


HitIds(hits) == {hits[i]._id : i \in 1..Len(hits)}

\* C24: recall returns at most `limit` hits, for every limit >= 0, query
\* type and graph_boost setting, and they are the `limit` highest-scoring of
\* all candidates: as many as there are, up to the limit, and no candidate
\* that is left out has a higher score than one that is returned.
C24_TopLimit ==
  rout.fn = "recall" =>
    /\ Len(rout.val) <= rin.limit
    /\ Len(rout.val) = IF rin.limit < Len(rout.candidates)
                         THEN rin.limit ELSE Len(rout.candidates)
    /\ \A i \in 1..Len(rout.val) :
         /\ \E c \in 1..Len(rout.candidates) : rout.candidates[c] = rout.val[i]
         /\ \A j \in 1..Len(rout.val) : j # i => rout.val[j]._id # rout.val[i]._id
         /\ \A c \in 1..Len(rout.candidates) :
              rout.candidates[c]._id \notin HitIds(rout.val)
                => rout.candidates[c].score <= rout.val[i].score

\* A multi-hop call, for which the limit factor is 2, with more candidates
\* than twice the limit, and a candidate left out that was found before a
\* hit that is returned.
C24_Witness ==
  /\ rout.fn = "recall"
  /\ rin.query_type = "multi-hop"
  /\ rin.limit >= 1
  /\ Len(rout.val) = rin.limit
  /\ Len(rout.candidates) > 2 * rin.limit
  /\ D01 \notin HitIds(rout.val)
  /\ D01 \in HitIds(rout.candidates)


ActiveStatuses == {"active", "todo", "doing"}

\* C25: with active_only every hit of recall, the hits added through graph
\* boosting included, is a block of the corpus whose Status is active, todo
\* or doing; superseded, rejected and rolled_back blocks are not returned.
C25_ActiveOnly ==
  (rout.fn = "recall" /\ rin.active_only) =>
    \A i \in 1..Len(rout.candidates) :
      /\ rout.candidates[i].status \in ActiveStatuses
      /\ \A b \in 1..Len(rin.corpus) :
           rin.corpus[b]._id = rout.candidates[i]._id
             => rin.corpus[b].Status \in ActiveStatuses

\* An active_only call that returns a hit added through the graph, a block
\* that shares no token with the query, and a hit that refers to a
\* superseded block of the corpus.
C25_Witness ==
  /\ rout.fn = "recall" /\ rin.active_only
  /\ \E i \in 1..Len(rout.val), b \in 1..Len(rin.corpus) :
       /\ rout.val[i].via_graph
       /\ rin.corpus[b]._id = rout.val[i]._id
       /\ Results(<<rin.corpus[b]>>, expand_query(tokenize(rin.query), 3), rin.bm25, 1) = <<>>
  /\ \E i \in 1..Len(rout.val), b, c \in 1..Len(rin.corpus) :
       /\ rin.corpus[b]._id = rout.val[i]._id
       /\ \E k \in 1..Len(rin.corpus[b].refs) : rin.corpus[b].refs[k] = rin.corpus[c]._id
       /\ rin.corpus[c].Status = "superseded"


\* ------------------------------------- apply_engine.py: two applies at once

\* Two processes run apply_proposal(ws, pid) on one workspace, each once.
\* apply_engine.py takes no lock: a step of one process can come between any
\* two file accesses of the other. wr[p] is where process p is and what it
\* holds in memory: buf the lines an executor read, state and stamp what
\* update_last_apply_ts loaded and the time it took.
Writers == {1, 2}

W1 == WithOps(<<U_OK>>, TRUE)
W2 == [WithOps(<<LI>>, TRUE) EXCEPT !.id = "P-2", !.ProposalId = "P-2"]

WIdle == [pc |-> "idle", pid |-> "", source |-> 0, proposal |-> BaseP, ts |-> -1,
          i |-> 0, found |-> FALSE, buf |-> <<>>, state |-> NoIntel, stamp |-> -1]

wpinned == <<pc, run, last, lockvars, recallvars, signals_md>>

WriterInit ==
  /\ fs = fs0
  /\ proposed = Files3(<<W1, W2>>, <<>>, <<>>)
  /\ intel \in {NoIntel, EmptyIntel, [EmptyIntel EXCEPT !.last_t = T0 - 60]}
  /\ snaps = [t \in {} |-> NoSnap]
  /\ now = T0
  /\ pc = "idle"
  /\ run = NoRun
  /\ last = Ret("none", "", FALSE, "none", "", -1, 0, Here, FALSE)
  /\ n = 0
  /\ wr = [p \in Writers |-> WIdle]
  /\ LockIdle /\ RecallIdle /\ CaptureIdle

\* apply_proposal, steps 1 to 3 (lines 696-762): the gates, the no-touch
\* window among them, and the precondition checks.
WGates(p, pid, preOk) ==
  /\ wr[p].pc = "idle"
  /\ LET hit == find_proposal(proposed, pid)
         q == proposed[hit[1]][hit[2]]
         refused == \/ hit = <<0, 0>>
                    \/ validate_proposal(q) # {}
                    \/ check_fingerprint_dedup(proposed, q)
                    \/ check_backlog_limit(proposed, intel)[2]
                    \/ ~check_deferred_cooldown(proposed, q, now)
                    \/ ~check_no_touch_window(intel, now)
                    \/ ~preOk
     IN wr' = [wr EXCEPT ![p] =
                 IF refused THEN [@ EXCEPT !.pc = "refused", !.pid = pid]
                 ELSE [@ EXCEPT !.pc = "snapshot", !.pid = pid, !.source = hit[1],
                                !.proposal = q]]
  /\ UNCHANGED <<fs, proposed, intel, snaps, now, n, wpinned>>

\* step 4 when create_snapshot returns
WSnapshot(p) ==
  /\ wr[p].pc = "snapshot"
  /\ snaps' = (now :> [create_snapshot(SnapAt(now), fs, proposed, intel)
                         EXCEPT !.receipt = write_receipt(wr[p].proposal, "in_progress")])
              @@ snaps
  /\ wr' = [wr EXCEPT ![p] = [@ EXCEPT !.pc = "read", !.ts = now, !.i = 1]]
  /\ UNCHANGED <<fs, proposed, intel, now, n, wpinned>>

\* step 4 when create_snapshot raises
WSnapshotRaises(p, hp) ==
  /\ wr[p].pc = "snapshot"
  /\ snaps' = (now :> create_snapshot_raised(SnapAt(now), fs, proposed, intel, hp))
              @@ snaps
  /\ wr' = [wr EXCEPT ![p] = [@ EXCEPT !.pc = "raised"]]
  /\ UNCHANGED <<fs, proposed, intel, now, n, wpinned>>

\* execute_op up to the executor's read: os.path.isfile, then the file's
\* lines (_op_update_field 354-355 and the like).
WOpRead(p) ==
  /\ wr[p].pc = "read"
  /\ LET loc == JoinWs(wr[p].proposal.Ops[wr[p].i].file)
     IN wr' = [wr EXCEPT ![p] =
                 [@ EXCEPT !.pc = "write", !.found = IsFile(fs, loc),
                           !.buf = IF IsFile(fs, loc) THEN fs[loc] ELSE <<>>]]
  /\ UNCHANGED <<fs, proposed, intel, snaps, now, n, wpinned>>

\* The rest of the executor: the lines it read, changed and written back
\* (append_block opens the file for appending and reads nothing), and the
\* loop's handling of the result.
WOpWrite(p) ==
  /\ wr[p].pc = "write"
  /\ LET op == wr[p].proposal.Ops[wr[p].i]
         loc == JoinWs(op.file)
         r == IF ~wr[p].found THEN [ok |-> FALSE, lines |-> <<>>, msg |-> "File not found"]
              ELSE Dispatch(IF op.op = "append_block" THEN fs[loc] ELSE wr[p].buf, op)
         snap == snaps[wr[p].ts]
     IN IF r.ok
          THEN /\ fs' = [fs EXCEPT ![loc] = r.lines]
               /\ wr' = [wr EXCEPT ![p] =
                           [@ EXCEPT !.i = @ + 1,
                                     !.pc = IF wr[p].i = Len(wr[p].proposal.Ops)
                                              THEN "post" ELSE "read"]]
               /\ UNCHANGED <<proposed, intel, snaps>>
          ELSE /\ Restored(snap, fs)
               /\ proposed' = restore_proposed(snap, proposed)
               /\ snaps' = [snaps EXCEPT ![wr[p].ts].receipt =
                              update_receipt(@, "ABORTED: op failure", "rolled_back")]
               /\ wr' = [wr EXCEPT ![p] = [@ EXCEPT !.pc = "failed"]]
  /\ UNCHANGED <<now, n, wpinned>>

\* steps 6 to 8 up to _mark_proposal_status
WFinish(p, postOk) ==
  /\ wr[p].pc = "post"
  /\ LET snap == snaps[wr[p].ts]
     IN IF ~postOk
          THEN /\ Restored(snap, fs)
               /\ proposed' =
                    LET P == restore_proposed(snap, proposed)
                    IN [P EXCEPT ![wr[p].source] =
                          _mark_proposal_status(@, wr[p].pid, "rolled_back")]
               /\ snaps' = [snaps EXCEPT ![wr[p].ts].receipt =
                              update_receipt(@, "post-check report", "rolled_back")]
               /\ wr' = [wr EXCEPT ![p] = [@ EXCEPT !.pc = "rolled_back"]]
          ELSE /\ snaps' = [snaps EXCEPT
                    ![wr[p].ts].diff =
                       generate_diff_artifact(snap, fs, wr[p].proposal.FilesTouched),
                    ![wr[p].ts].receipt = update_receipt(@, "post-check report", "applied")]
               /\ proposed' = [proposed EXCEPT ![wr[p].source] =
                                 _mark_proposal_status(@, wr[p].pid, "applied")]
               /\ wr' = [wr EXCEPT ![p] = [@ EXCEPT !.pc = "ts_read"]]
               /\ UNCHANGED <<fs, intel>>
  /\ UNCHANGED <<now, n, wpinned>>

\* update_last_apply_ts, lines 629-630: the state is loaded and the time
\* taken
WTsRead(p) ==
  /\ wr[p].pc = "ts_read"
  /\ wr' = [wr EXCEPT ![p] = [@ EXCEPT !.pc = "ts_write", !.state = intel, !.stamp = now]]
  /\ UNCHANGED <<fs, proposed, intel, snaps, now, n, wpinned>>

\* update_last_apply_ts, line 631: the state is saved; apply_proposal
\* returns True
WTsWrite(p) ==
  /\ wr[p].pc = "ts_write"
  /\ intel' = update_last_apply_ts(wr[p].state, wr[p].stamp)
  /\ wr' = [wr EXCEPT ![p] = [@ EXCEPT !.pc = "done"]]
  /\ UNCHANGED <<fs, proposed, snaps, now, n, wpinned>>

\* time passes
WTick(d) ==
  /\ n < MaxSteps
  /\ n' = n + 1
  /\ now' = now + d
  /\ UNCHANGED <<fs, proposed, intel, snaps, wr, wpinned>>

WriterNext ==
  \/ \E p \in Writers, pid \in {"P-1", "P-2"}, preOk \in BOOLEAN : WGates(p, pid, preOk)
  \/ \E p \in Writers : WSnapshot(p)
  \/ \E p \in Writers, hp \in BOOLEAN : WSnapshotRaises(p, hp)
  \/ \E p \in Writers : WOpRead(p)
  \/ \E p \in Writers : WOpWrite(p)
  \/ \E p \in Writers, postOk \in BOOLEAN : WFinish(p, postOk)
  \/ \E p \in Writers : WTsRead(p)
  \/ \E p \in Writers : WTsWrite(p)
  \/ \E d \in {1} : WTick(d)

WriterSpec == WriterInit /\ [][WriterNext]_allvars


\* The positions of apply_proposal after the no-touch check has passed and
\* before last_apply_ts is written.
Between == {"snapshot", "read", "write", "post", "ts_read", "ts_write"}

\* C29: of two interleaved apply_proposal runs on one workspace at most one
\* is between the no-touch check and the update of last_apply_ts at any
\* time, and the two never both commit within the no-touch window.
C29_OneApplyInWindow ==
  /\ Cardinality({p \in Writers : wr[p].pc \in Between}) <= 1
  /\ \A p, q \in Writers :
       (p # q /\ wr[p].pc = "done" /\ wr[q].pc = "done")
         => (wr[p].stamp - wr[q].stamp >= NoTouchSecs
             \/ wr[q].stamp - wr[p].stamp >= NoTouchSecs)

\* the lines the ops leave when they are executed one after the other
RECURSIVE RunOps(_, _, _)
RunOps(lines, ops, i) ==
  IF i > Len(ops) THEN lines ELSE RunOps(Dispatch(lines, ops[i]).lines, ops, i + 1)

\* C30: writers of one file are serialized, no update is lost: when two
\* applies that interleaved have both committed, the corpus file holds what
\* the ops of one followed by the ops of the other leave, and
\* intel-state.json holds the stamp of the one that committed last.
C30_NoLostUpdate ==
  (\A p \in Writers : wr[p].pc = "done") =>
    /\ \E p, q \in Writers :
         /\ p # q
         /\ fs[DEC] = RunOps(RunOps(fs0[DEC], wr[p].proposal.Ops, 1),
                             wr[q].proposal.Ops, 1)
    /\ \A p \in Writers : intel.last_t >= wr[p].stamp


\* -------------------------------------------- filelock.py: claims, liveness

\* The steps of process p's acquire() and release().
LockProc(p) ==
  \/ LockOpen(p) \/ LockWritePid(p) \/ LockIsStale(p) \/ LockAgeCheck(p)
  \/ \E removed \in BOOLEAN : LockBreakStale(p, removed)
  \/ \E timed_out \in BOOLEAN : LockWait(p, timed_out)

\* A live process goes on with its call, and a process that sleeps and
\* tries again finds its timeout elapsed after some number of sleeps
\* (time.monotonic() grows by poll_interval with each).
LockFair ==
  \A p \in LockProcs :
    /\ WF_allvars(LockProc(p))
    /\ SF_allvars(LockWait(p, TRUE))

LockLiveSpec == LockInit /\ [][LockNext]_allvars /\ LockFair

Acquiring == {"open", "write", "check", "age", "break", "wait"}

\* C31: acquire() with a timeout >= 0 terminates: a process that is in
\* acquire() comes to hold the lock or to raise LockTimeout (or dies).
C31_AcquireTerminates ==
  \A p \in LockProcs :
    (lpc[p] \in Acquiring) ~> (lpc[p] \in {"held", "idle", "dead"})

\* C32: release() by a process whose lock file was broken as stale and
\* created again by another process does not remove the other's lock file.
C32_ReleaseKeepsOthersLock ==
  [][\A p \in LockProcs :
       (lpc[p] = "held" /\ lpc'[p] = "idle" /\ lockfile.exists /\ lockfile.by # p)
         => lockfile' = lockfile]_allvars


\* --------------------------------------------- apply_engine.py: more claims

\* C33: create_snapshot returns, and the snapshot it writes holds no copy of
\* its own directory: no snapshot directory is one on which the copy of
\* `intelligence` went into the snapshot being written and raised.
C33_SnapshotHoldsNoCopyOfItself ==
  \A ts \in DOMAIN snaps : ~snaps[ts].broken


FinalStatusLines(receipt) == {i \in 1..Len(receipt) : receipt[i][1] = "FinalStatus"}

StagedBlocks(P) ==
  UNION {{<<f, i>> : i \in {j \in 1..Len(P[f]) : P[f][j].Status = "staged"}} :
           f \in PFiles}

\* C36: given that validation and dedup pass, apply_proposal fails at the
\* backlog gate if and only if the number of staged blocks in the three
\* proposed files, the proposal itself included, is >= the backlog_limit of
\* intel-state, 30 when the file or the key is missing.
C36_BacklogGate ==
  [][\A pid \in Pids, dry \in BOOLEAN, preOk \in BOOLEAN :
       (/\ ApplyGates(pid, dry, preOk)
        /\ find_proposal(proposed, pid) # <<0, 0>>
        /\ validate_proposal(Found(proposed, pid)) = {}
        /\ ~check_fingerprint_dedup(proposed, Found(proposed, pid)))
         => ((pc' = "idle" /\ last'.reason = "Backlog limit exceeded")
              <=> Cardinality(StagedBlocks(proposed))
                    >= (IF intel.present /\ intel.backlog_limit # 0
                          THEN intel.backlog_limit ELSE 30))]_vars

\* An apply was refused at the backlog gate with as many staged blocks as
\* the limit that intel-state sets, the proposal being one of them.
C36_Witness ==
  /\ last.op = "apply" /\ last.reason = "Backlog limit exceeded"
  /\ last.pre.intel.backlog_limit = 2
  /\ Cardinality(StagedBlocks(last.pre.proposed)) = 2
  /\ Found(last.pre.proposed, last.pid).Status = "staged"


\* ------------------------------------------------- a failed op and its file

\* C37: an op executor that returns (false, reason) leaves its target file
\* as it was before the op: whenever the loop of apply_proposal is about to
\* run an op that fails, the files execute_op hands back are the files it was
\* given.
C37_FailedOpLeavesFile ==
  pc = "ops" =>
    LET r == execute_op(fs, run.proposal.Ops[run.i])
    IN ~r.ok => r.fs = fs


\* ------------------------------------------------------- the diff artifact

\* C38: after a committed apply, DIFF.txt records a diff for every file whose
\* content the proposal's ops changed, also when the proposal has no
\* FilesTouched field: at the step that commits, every op file whose lines
\* differ from those it had when the apply began is one of the files DIFF.txt
\* holds a diff for.
C38_DiffRecordsEveryChange ==
  [][(pc = "post" /\ pc' = "idle" /\ last'.ok = "true")
       => \A i \in 1..Len(run.proposal.Ops) :
            LET loc == JoinWs(run.proposal.Ops[i].file)
            IN (IsFile(fs, loc) /\ fs[loc] # run.pre.fs[loc])
                 => \E g \in snaps'[run.ts].diff.files : JoinWs(g) = loc]_vars


\* ------------------------------------------------ recall.py: graph boosting

\* The call boosts: by its flag or because the query type forces it.
Boosting == rout.fn = "recall" /\ (rin.graph_boost \/ rin.query_type = "multi-hop")

\* The blocks the call loaded, its hits before boosting, and the graph.
Loaded == IF rin.active_only THEN get_active(rin.corpus) ELSE rin.corpus
Bm25Hits == Results(Loaded, expand_query(tokenize(rin.query), 3), rin.bm25, 1)

\* What reaches block `nid` from the hits next to it at decay 0.3, and from
\* the blocks that are next to a hit and are no hits themselves at decay
\* 0.3 * 0.33 of what reached them, in units of 1/FINE of a score unit.
Reached(nid) ==
  LET graph == build_xref_graph(Loaded)
      hits == Bm25Hits
      first(id) == SumTo([i \in 1..Len(hits) |->
                            IF id \in graph[hits[i]._id] THEN hits[i].score * 12000
                            ELSE 0], Len(hits))
      discovered == (UNION {graph[hits[i]._id] : i \in 1..Len(hits)}) \ HitIds(hits)
      second(id) == SumTo([i \in 1..Len(Loaded) |->
                             IF Loaded[i]._id \in discovered /\ id \in graph[Loaded[i]._id]
                               THEN (first(Loaded[i]._id) \div 2000) * 198 ELSE 0],
                          Len(Loaded))
  IN first(nid) + second(nid)

\* C39: with graph boosting on, every hit that was no BM25 hit is within two
\* cross-reference edges of a BM25 hit, is marked via_graph and has as its
\* score what reached it from the hits at hop 0 and from the blocks newly
\* discovered at hop 0 at hop 1; no block ID is in the result twice; every
\* BM25 hit is still in the result and its score is not lower than before.
C39_GraphBoost ==
  Boosting =>
    LET graph == build_xref_graph(Loaded)
        hits == Bm25Hits
        res == rout.candidates
    IN /\ \A i \in 1..Len(res) :
            res[i]._id \notin HitIds(hits) =>
              /\ \E h \in HitIds(hits) :
                   \/ res[i]._id \in graph[h]
                   \/ \E m \in graph[h] : res[i]._id \in graph[m]
              /\ res[i].via_graph
              /\ res[i].score = (Reached(res[i]._id) + (FINE \div 2)) \div FINE
       /\ \A i, j \in 1..Len(res) : i # j => res[i]._id # res[j]._id
       /\ \A k \in 1..Len(hits) :
            \E i \in 1..Len(res) :
              res[i]._id = hits[k]._id /\ res[i].score >= hits[k].score

\* A boosted call whose result has a hit that is next to no BM25 hit, two
\* edges from one, a BM25 hit whose score was raised, and leaves out a block
\* that was loaded.
C39_Witness ==
  /\ Boosting
  /\ LET graph == build_xref_graph(Loaded)
         near == HitIds(Bm25Hits) \cup UNION {graph[h] : h \in HitIds(Bm25Hits)}
     IN /\ \E i \in 1..Len(rout.candidates) :
             rout.candidates[i]._id \notin near /\ rout.candidates[i].score > 0
        /\ \E i \in 1..Len(rout.candidates), k \in 1..Len(Bm25Hits) :
             /\ rout.candidates[i]._id = Bm25Hits[k]._id
             /\ rout.candidates[i].score > Bm25Hits[k].score
        /\ \E b \in 1..Len(Loaded) : Loaded[b]._id \notin HitIds(rout.candidates)


\* ---------------------------------------------------------------- capture.py

\* A text is the sequence of its words. Dates are strings of characters as
\* datetime.strftime("%Y-%m-%d") writes them.
DATE13 == <<"2","0","2","6","-","0","2","-","1","3">>
DATE14 == <<"2","0","2","6","-","0","2","-","1","4">>
Dates == {DATE13, DATE14}

\* date_str.replace("-", "")
today_compact(date_str) == SelectSeq(date_str, LAMBDA c : c # "-")

\* The per-day cap of line 119, and the length of the excerpt that the
\* dedup of line 101 looks for (100 characters; in words here).
MaxCounter == 999
DedupLen == 2

\* Signals as scan_log yields them from the lines of one daily log: two
\* lines with the same text, a text that begins as another does, and a text
\* that is a word of the lines written for every block.
Signal(line, type, text) == [line |-> line, type |-> type, text |-> text]
LogSignals ==
  << Signal(2, "task", <<"need", "to", "deploy">>),
     Signal(3, "decision", <<"we", "chose", "React">>),
     Signal(4, "task", <<"need", "to", "deploy">>),
     Signal(5, "task", <<"need", "to", "test">>),
     Signal(6, "task", <<"pending">>) >>

\* The most signals in one call, and the most blocks in the file.
MaxSignals == 2
MaxBlocks == 4

\* The lists a call can get: signals of the log, in the order of their lines.
SignalLists ==
  LET picks == UNION {[1..m -> 1..Len(LogSignals)] : m \in 0..MaxSignals}
  IN {[k \in 1..Len(ix) |-> LogSignals[ix[k]]] :
        ix \in {s \in picks : \A a, b \in 1..Len(s) : a < b => s[a] < s[b]}}

\* The block that lines 121-129 write.
SignalBlock(compact, counter, date_str, sig) ==
  [date |-> compact, nnn |-> counter, Date |-> date_str,
   Type |-> IF sig.type = "decision" THEN "auto-capture-decision"
            ELSE "auto-capture-task",
   line |-> sig.line, Excerpt |-> sig.text]

\* The lines of a block in which a text can be found: the lines with the ID,
\* the date and the source hold digits and no word of a text.
BlockLines(b) ==
  << <<"Type:", b.Type>>, <<"Status:", "pending">>, <<"Excerpt:">> \o b.Excerpt,
     <<"Action:", "Review", "and", "formalize", "as",
       IF b.Type = "auto-capture-decision" THEN "D-" ELSE "T-",
       "block", "if", "warranted">> >>

\* sig["text"][:100]
Excerpt100(text) == SubSeq(text, 1, IF Len(text) < DedupLen THEN Len(text) ELSE DedupLen)

\* `words in line`
Occurs(words, line) ==
  \E o \in 0..(Len(line) - Len(words)) : SubSeq(line, o + 1, o + Len(words)) = words

\* `words in existing`
InExisting(words, blocks) ==
  \E i \in 1..Len(blocks) :
    \E k \in 1..Len(BlockLines(blocks[i])) : Occurs(words, BlockLines(blocks[i])[k])

\* append_signals: the file after the call, and what the call returns.
append_signals(file, signals, date_str) ==
  IF ~file.exists THEN [file |-> file, ret |-> 0]
  ELSE LET existing == file.blocks
           new_signals == SelectSeq(signals,
                                    LAMBDA sig : ~InExisting(Excerpt100(sig.text), existing))
           compact == today_compact(date_str)
           today_ids == {existing[i].nnn :
                           i \in {j \in 1..Len(existing) : existing[j].date = compact}}
           counter == IF today_ids # {}
                        THEN (CHOOSE x \in today_ids : \A y \in today_ids : y <= x) + 1
                      ELSE 1
           room == IF counter > MaxCounter THEN 0 ELSE MaxCounter - counter + 1
           written == IF Len(new_signals) < room THEN Len(new_signals) ELSE room
       IN IF new_signals = <<>> THEN [file |-> file, ret |-> 0]
          ELSE [file |-> [file EXCEPT !.blocks =
                            @ \o [k \in 1..written |->
                                    SignalBlock(compact, counter + k - 1, date_str,
                                                new_signals[k])]],
                ret |-> Len(new_signals)]

\* The files the calls start from: none, the empty file of a new workspace,
\* a file with one signal of an earlier capture, and a file near the cap.
InitSignalFiles ==
  { NoSignalsFile,
    [exists |-> TRUE, blocks |-> <<>>],
    [exists |-> TRUE,
     blocks |-> <<SignalBlock(today_compact(DATE13), 2, DATE13,
                              Signal(1, "task", <<"previous", "signal">>))>>],
    [exists |-> TRUE,
     blocks |-> <<SignalBlock(today_compact(DATE13), 998, DATE13,
                              Signal(1, "task", <<"previous", "signal">>))>>] }

CaptureInit ==
  signals_md \in InitSignalFiles /\ EngineIdle /\ LockIdle /\ RecallIdle /\ WritersIdle

\* One call of append_signals(workspace, signals, date_str).
AppendSignals(signals, date_str) ==
  /\ signals_md' = append_signals(signals_md, signals, date_str).file
  /\ Len(signals_md'.blocks) <= MaxBlocks
  /\ UNCHANGED <<vars, lockvars, recallvars, wr>>

CaptureNext == \E signals \in SignalLists, date_str \in Dates : AppendSignals(signals, date_str)

CaptureSpec == CaptureInit /\ [][CaptureNext]_allvars

\* The highest NNN of the IDs of a date in the file, 0 when there is none.
HighestOf(blocks, compact) ==
  LET nnns == {blocks[i].nnn : i \in {j \in 1..Len(blocks) : blocks[j].date = compact}}
  IN IF nnns = {} THEN 0 ELSE CHOOSE x \in nnns : \A y \in nnns : y <= x

\* No two blocks of the file have the same ID.
UniqueSignalIds ==
  \A i, j \in 1..Len(signals_md.blocks) :
    i # j => <<signals_md.blocks[i].date, signals_md.blocks[i].nnn>>
               # <<signals_md.blocks[j].date, signals_md.blocks[j].nnn>>

\* A call leaves the blocks that were there and numbers the blocks it adds,
\* all of one date, consecutively from one more than the highest NNN the
\* date had, never past 999.
NumberedFromHighest ==
  LET old == signals_md.blocks
      new == signals_md'.blocks
  IN /\ Len(new) >= Len(old) /\ SubSeq(new, 1, Len(old)) = old
     /\ \E d \in Dates :
          \A k \in 1..(Len(new) - Len(old)) :
            /\ new[Len(old) + k].date = today_compact(d)
            /\ new[Len(old) + k].nnn = HighestOf(old, today_compact(d)) + k
            /\ new[Len(old) + k].nnn <= MaxCounter

\* No block a call adds has a text that was in the file when the call read
\* it.
NotInFileAsRead ==
  \A k \in (Len(signals_md.blocks) + 1)..Len(signals_md'.blocks) :
    ~InExisting(signals_md'.blocks[k].Excerpt, signals_md.blocks)

\* No block a call adds has a text that is already in the file when the
\* block is added.
NotAppendedAgain ==
  \A k \in (Len(signals_md.blocks) + 1)..Len(signals_md'.blocks) :
    ~InExisting(signals_md'.blocks[k].Excerpt, SubSeq(signals_md'.blocks, 1, k - 1))

\* C40: after any sequence of append_signals calls on one SIGNALS.md no two
\* signal blocks have the same ID: each call numbers its new signals
\* consecutively from one more than the highest existing NNN of the date
\* (from 001 if there is none), never past 999, and a signal whose text
\* already appears in the file is not appended again.
C40_UniqueIdsNoRepeat ==
  /\ [](UniqueSignalIds)
  /\ [][NumberedFromHighest /\ NotAppendedAgain]_allvars

\* The same with the texts looked for in the file as the call read it.
UniqueIdsNoRepeatAsRead ==
  /\ [](UniqueSignalIds)
  /\ [][NumberedFromHighest /\ NotInFileAsRead]_allvars

====
